---- MODULE Spec2Model ----
(***************************************************************************)
(* Personal Shopper backend (FastAPI + SQLAlchemy).                        *)
(*                                                                         *)
(* The state is the content of the relational database plus the last HTTP  *)
(* request and its response.  Every sequential action is one whole request *)
(* handler: dependency resolution (bearer token -> user), the request      *)
(* schema, the handler body, the commit or the rollback that closing the   *)
(* session performs (dependencies.py get_db: no commit => nothing          *)
(* persists), and the serialisation of the returned object through the     *)
(* endpoint's response_model.                                              *)
(*                                                                         *)
(* Python exceptions that are not HTTPException (AttributeError from        *)
(* reading an attribute a value does not have, IntegrityError from the     *)
(* database) surface as HTTP 500 and leave the database as it was at the   *)
(* last commit.                                                            *)
(*                                                                         *)
(* Record shapes.  The mapped classes under app/models and the schemas     *)
(* under app/schemas are drafts of different ages (OrderItem.price is      *)
(* passed as price_at_time by POST /orders and by the test fixtures,       *)
(* Product has no size/color, Category no is_active, checkout lines carry  *)
(* a price only in the schema drafted in schemas/cart.py).  Attribute      *)
(* names are taken as each handler uses them: a row has the fields the     *)
(* handler that writes it passes, and the unit price of an order line is   *)
(* one field, `price`.  Values keep their Python behaviour: a status       *)
(* loaded from the String(20) column is a plain str.                       *)
(***************************************************************************)
EXTENDS Integers, Sequences, FiniteSets, TLC

\* the fields of the model's records; every record lists its fields in this
\* order
RecordFields ==
    [ code : {}, detail : {}, body : {}, hash_of : {}, valid : {},
     decoded : {}, sub : {}, uid : {}, kind : {}, n : {}, length : {},
     has_digit : {}, blank : {}, given : {}, parses : {}, at : {}, value : {},
     id : {}, user_id : {}, total_price : {}, status : {},
     shipping_address : {}, payment_method : {}, created_at : {},
     cart_id : {}, status_filter : {}, min_date : {}, max_date : {},
     min_price : {}, max_price : {}, skip : {}, limit : {}, sort_by : {},
     sort_order : {}, raw : {}, stripped : {}, forbidden : {}, pc : {},
     op : {}, token : {}, email : {}, username : {}, full_name : {},
     password : {}, name : {}, product_id : {}, items : {}, address : {},
     product_name : {}, requested_quantity : {}, available_quantity : {},
     order_id : {}, new_status : {}, query : {}, data : {}, description : {},
     item_id : {}, quantity : {}, price : {}, category_id : {}, stock : {},
     is_active : {}, is_admin : {}, image_url : {}, price_at_time : {},
     file : {}, loaded : {}, committed : {}, flushed : {}, route : {},
     outcome : {}, opened : {}, closed : {} ]

VARIABLES
    users,          \* table users:       id -> row
    categories,     \* table categories:  id -> row
    products,       \* table products:    id -> row
    carts,          \* table carts:       set of rows [id, user_id]
    cart_items,     \* table cart_items:  set of rows
    cart_item_seq,  \* last id handed out by the cart_items id sequence
    orders,         \* table orders (+ order_items as the `items` relationship)
    files,          \* uploads/products: name issued -> still on disk
    sessions,       \* request handlers in flight (SpecConc, SpecSessionLive)
    issued,         \* bearer tokens issued by login, each with the user it was issued to
    req,            \* the last request received
    resp,           \* the response sent for it
    before          \* observer: table products as it was before the last request

vars == <<users, categories, products, carts, cart_items, cart_item_seq,
          orders, files, sessions, issued, req, resp, before>>

db == <<users, categories, products, carts, cart_items, cart_item_seq, orders, files>>

None == "None"

(***************************************************************************)
(* Bounds of the model                                                     *)
(***************************************************************************)
\* cancel_order is not explored once it would push a stock above this value
MaxStock == 6
\* cart_items rows are not inserted once the id sequence reached this value
MaxCartItemId == 3
\* categories are not inserted once the largest id reached this value
MaxCategoryId == 3
\* uploads are not stored once this many files exist
MaxFiles == 1

(***************************************************************************)
(* Small helpers                                                           *)
(***************************************************************************)
Max(S) == CHOOSE x \in S : \A y \in S : y <= x
Min(S) == CHOOSE x \in S : \A y \in S : x <= y

RECURSIVE SumSeq(_)
SumSeq(s) == IF s = <<>> THEN 0 ELSE Head(s) + SumSeq(Tail(s))

Range(s) == {s[i] : i \in DOMAIN s}

\* f without the key k
Remove(f, k) == [x \in (DOMAIN f) \ {k} |-> f[x]]

Response(code, detail) == [code |-> code, detail |-> detail, body |-> <<>>]
ResponseBody(code, detail, body) == [code |-> code, detail |-> detail, body |-> body]

\* an exception that is not an HTTPException: Starlette answers 500
InternalServerError == Response(500, "Internal Server Error")
\* request body rejected by the request schema before the handler runs
Unprocessable == Response(422, "validation error")

\* a request arrives: it becomes the last request, and the observer keeps the
\* catalog as the request found it
Received(request) ==
    /\ req' = request
    /\ before' = products

(***************************************************************************)
(* Enumerations and value behaviour                                        *)
(***************************************************************************)
\* members of the persisted-model enumeration OrderStatus
OrderStatusValues == {"pending", "confirmed", "shipped", "delivered", "cancelled"}
\* members of the response-schema enumeration OrderStatusEnum
OrderStatusEnumValues == {"pending", "processing", "shipped", "delivered", "cancelled"}

\* Order.status is a String(20) column: a loaded status is a plain str, which
\* compares equal to the str-enum member but has no `.value`
StatusHasValueAttr == FALSE

(***************************************************************************)
(* Users, tokens, authorization dependencies                               *)
(***************************************************************************)
Alice == 1
Bob   == 2
Admin == 3
Carol == 4

\* one-way hash of a plaintext password (the salt is not modelled)
hash_password(plaintext) == [hash_of |-> plaintext]

\* does the plaintext candidate hash to the stored hash
verify_password(plaintext, hashed) == hashed = hash_password(plaintext)

UserRow(email, username, full_name, is_active, is_admin) ==
    [email |-> email, username |-> username, full_name |-> full_name,
     password |-> hash_password("secret"), is_active |-> is_active, is_admin |-> is_admin]

UsersInit ==
    (Alice :> UserRow("alice@x", "alice", "Alice A", TRUE,  FALSE)) @@
    (Bob   :> UserRow("bob@x",   "bob",   "Bob B",   TRUE,  FALSE)) @@
    (Admin :> UserRow("admin@x", "admin", "Admin",   TRUE,  TRUE)) @@
    (Carol :> UserRow("carol@x", "carol", "Carol C", FALSE, FALSE))

\* a bearer token: `valid` = well formed, signed with the secret, not expired
TokenFor(email) == [valid |-> TRUE, sub |-> email]
GarbageToken    == [valid |-> FALSE, sub |-> None]
NoSubToken      == [valid |-> TRUE, sub |-> None]
GhostToken      == TokenFor("ghost@x")

AllTokens == {TokenFor(UsersInit[u].email) : u \in DOMAIN UsersInit}
             \cup {GarbageToken, NoSubToken, GhostToken}

\* verifies signature and expiry; the claim set on success, absent otherwise
decode_token(token) ==
    [decoded |-> token.valid, sub |-> IF token.valid THEN token.sub ELSE None]

\* db.query(User).filter(User.email == email).first()
UserByEmail(email) ==
    LET found == {u \in DOMAIN users : users[u].email = email}
    IN  IF found = {} THEN 0 ELSE Min(found)

\* the dependency without its is_active check
get_current_user_ignoring_is_active(token) ==
    LET payload == decode_token(token)
        uid     == UserByEmail(payload.sub)
    IN  IF ~payload.decoded
        THEN [code |-> 401, detail |-> "Token invalido ou expirado", uid |-> 0]
        ELSE IF payload.sub = None
        THEN [code |-> 401, detail |-> "Token invalido", uid |-> 0]
        ELSE IF uid = 0
        THEN [code |-> 401, detail |-> "Usuario nao encontrado", uid |-> 0]
        ELSE [code |-> 200, detail |-> "ok", uid |-> uid]

get_current_user(token) ==
    LET payload == decode_token(token)
        uid     == UserByEmail(payload.sub)
    IN  IF ~payload.decoded
        THEN [code |-> 401, detail |-> "Token invalido ou expirado", uid |-> 0]
        ELSE IF payload.sub = None
        THEN [code |-> 401, detail |-> "Token invalido", uid |-> 0]
        ELSE IF uid = 0
        THEN [code |-> 401, detail |-> "Usuario nao encontrado", uid |-> 0]
        ELSE IF ~users[uid].is_active
        THEN [code |-> 403, detail |-> "Usuario inativo", uid |-> 0]
        ELSE [code |-> 200, detail |-> "ok", uid |-> uid]

\* the dependency without its is_admin check
get_current_admin_user_ignoring_is_admin(token) == get_current_user(token)

get_current_admin_user(token) ==
    LET cu == get_current_user(token)
    IN  IF cu.code # 200 THEN cu
        ELSE IF ~users[cu.uid].is_admin
        THEN [code |-> 403, detail |-> "Acesso restrito a administradores", uid |-> 0]
        ELSE cu

(***************************************************************************)
(* Catalog and orders: rows                                                *)
(***************************************************************************)
\* Product.image_url: NULL, a path under uploads/ or any other URL
NoImage     == [kind |-> "null", n |-> 0]
Uploaded(n) == [kind |-> "uploads/", n |-> n]
External(n) == [kind |-> "http", n |-> n]

ProductRow(name, price, category_id, stock, is_active) ==
    [name |-> name, price |-> price, category_id |-> category_id, stock |-> stock,
     is_active |-> is_active, image_url |-> NoImage]

\* one line of an order request: product, quantity, caller-supplied unit price
\* (the price is read by POST /stock/checkout only)
Line(product_id, quantity, price) ==
    [product_id |-> product_id, quantity |-> quantity, price |-> price]

GoodAddress  == [length |-> 24, has_digit |-> TRUE,  blank |-> FALSE]
BlankAddress == [length |-> 12, has_digit |-> FALSE, blank |-> TRUE]

PaymentMethods == {"credit_card", "debit_card", "pix", "boleto", "paypal"}

\* request schema OrderCreate with its lines (OrderItemBase)
OrderCreateSchemaAccepts(items, address, payment_method) ==
    /\ Len(items) >= 1
    /\ Len(items) <= 100
    /\ \A i \in DOMAIN items :
          /\ items[i].product_id > 0
          /\ items[i].quantity > 0
          /\ items[i].quantity <= 1000
    /\ address.length >= 10
    /\ address.length <= 500
    /\ address.has_digit
    /\ payment_method \in PaymentMethods

\* total quantity of product p over the lines of an order or of a request
RECURSIVE QuantityOf(_, _)
QuantityOf(items, p) ==
    IF items = <<>> THEN 0
    ELSE (IF Head(items).product_id = p THEN Head(items).quantity ELSE 0)
         + QuantityOf(Tail(items), p)

OrderIds == DOMAIN orders

\* id given to a row inserted in a table whose largest id is the last one issued
NextId(ids) == IF ids = {} THEN 1 ELSE Max(ids) + 1

\* server clock at insertion: later than every stored created_at
Now == NextId({orders[o].created_at : o \in OrderIds})

\* the query without its Order.user_id filter
OwnedOrder_any_owner(order_id, uid) ==
    IF order_id \in OrderIds THEN order_id ELSE 0

\* db.query(Order).filter(Order.id == order_id, Order.user_id == current_user.id).first()
OwnedOrder(order_id, uid) ==
    IF order_id \in OrderIds /\ orders[order_id].user_id = uid THEN order_id ELSE 0

\* response_model=OrderResponse: status must be a member of OrderStatusEnum
OrderSerializes(order) == order.status \in OrderStatusEnumValues

\* a lookup that never finds the user's cart
CartOf_never_found(uid) == 0

\* db.query(Cart).filter(Cart.user_id == uid).first()
CartOf(uid) ==
    LET found == {c \in carts : c.user_id = uid}
    IN  IF found = {} THEN 0 ELSE Min({c.id : c \in found})

\* a delete without its cart_id filter
DeleteCartItemsOf_every_cart(cart_id) == {}

\* db.query(CartItem).filter(CartItem.cart_id == cart.id).delete(): what is left
DeleteCartItemsOf(cart_id) == {ci \in cart_items : ci.cart_id # cart_id}

(***************************************************************************)
(* POST /orders                                                            *)
(***************************************************************************)
\* the loop with item_total taken from a unit price sent by the caller
RECURSIVE create_order_validate_caller_price(_, _, _, _)
create_order_validate_caller_price(items, i, product_ids_in_order, total_price) ==
    IF i > Len(items)
    THEN [code |-> 200, detail |-> "ok", total_price |-> total_price]
    ELSE LET item == items[i]
             pid  == item.product_id
         IN  IF pid \in product_ids_in_order
             THEN [code |-> 400, detail |-> "Produto aparece mais de uma vez no pedido", total_price |-> 0]
             ELSE IF pid \notin DOMAIN products
             THEN [code |-> 404, detail |-> "Produto nao encontrado", total_price |-> 0]
             ELSE IF ~products[pid].is_active
             THEN [code |-> 400, detail |-> "Produto nao esta disponivel para compra", total_price |-> 0]
             ELSE IF products[pid].stock < item.quantity
             THEN [code |-> 400, detail |-> "Estoque insuficiente", total_price |-> 0]
             ELSE create_order_validate_caller_price(items, i + 1,
                                        product_ids_in_order \cup {pid},
                                        total_price + item.price * item.quantity)

\* the validation loop over order_data.items: first failing line wins
RECURSIVE create_order_validate(_, _, _, _)
create_order_validate(items, i, product_ids_in_order, total_price) ==
    IF i > Len(items)
    THEN [code |-> 200, detail |-> "ok", total_price |-> total_price]
    ELSE LET item == items[i]
             pid  == item.product_id
         IN  IF pid \in product_ids_in_order
             THEN [code |-> 400, detail |-> "Produto aparece mais de uma vez no pedido", total_price |-> 0]
             ELSE IF pid \notin DOMAIN products
             THEN [code |-> 404, detail |-> "Produto nao encontrado", total_price |-> 0]
             ELSE IF ~products[pid].is_active
             THEN [code |-> 400, detail |-> "Produto nao esta disponivel para compra", total_price |-> 0]
             ELSE IF products[pid].stock < item.quantity
             THEN [code |-> 400, detail |-> "Estoque insuficiente", total_price |-> 0]
             ELSE create_order_validate(items, i + 1, product_ids_in_order \cup {pid},
                                        total_price + products[pid].price * item.quantity)

\* order_items_data: the lines with the catalog price captured
RECURSIVE order_items_data(_)
order_items_data(items) ==
    IF items = <<>> THEN <<>>
    ELSE <<Line(Head(items).product_id, Head(items).quantity,
                products[Head(items).product_id].price)>>
         \o order_items_data(Tail(items))

\* a loop that stops after the first line
DecrementStock_first_line_only(prods, items) ==
    IF items = <<>> THEN prods
    ELSE [prods EXCEPT ![Head(items).product_id].stock = @ - Head(items).quantity]

\* `product.stock -= quantity` for each line in turn, on the session's objects
RECURSIVE DecrementStock(_, _)
DecrementStock(prods, items) ==
    IF items = <<>> THEN prods
    ELSE DecrementStock(
            [prods EXCEPT ![Head(items).product_id].stock = @ - Head(items).quantity],
            Tail(items))

NewOrder(uid, total_price, address, payment_method, items) ==
    [user_id |-> uid, total_price |-> total_price, status |-> "pending",
     shipping_address |-> address, payment_method |-> payment_method,
     created_at |-> Now, items |-> items]

create_order(token, items, address, payment_method) ==
    LET cu    == get_current_user(token)
        check == create_order_validate(items, 1, {}, 0)
        id    == NextId(OrderIds)
        order == NewOrder(cu.uid, check.total_price, address, payment_method,
                          order_items_data(items))
        cart  == CartOf(cu.uid)
    IN  /\ Received([op |-> "create_order", token |-> token, items |-> items,
                   address |-> address])
        /\ IF cu.code # 200
           THEN resp' = Response(cu.code, cu.detail) /\ UNCHANGED db
           ELSE IF ~OrderCreateSchemaAccepts(items, address, payment_method)
           THEN resp' = Unprocessable /\ UNCHANGED db
           ELSE IF Len(items) = 0
           THEN resp' = Response(400, "Pedido deve conter pelo menos um item") /\ UNCHANGED db
           ELSE IF Len(items) > 100
           THEN resp' = Response(400, "Pedido nao pode conter mais de 100 itens") /\ UNCHANGED db
           ELSE IF check.code # 200
           THEN resp' = Response(check.code, check.detail) /\ UNCHANGED db
           ELSE IF check.total_price <= 0
           THEN resp' = Response(400, "Preco total do pedido deve ser maior que zero") /\ UNCHANGED db
           ELSE IF address.blank
           THEN resp' = Response(400, "Endereco de entrega e obrigatorio") /\ UNCHANGED db
           ELSE /\ orders' = (id :> order) @@ orders
                /\ products' = DecrementStock(products, order.items)
                /\ cart_items' = IF cart # 0 THEN DeleteCartItemsOf(cart) ELSE cart_items
                /\ resp' = IF OrderSerializes(order)
                           THEN ResponseBody(201, "created", <<id>>)
                           ELSE InternalServerError
                /\ UNCHANGED <<users, categories, carts, cart_item_seq, files>>
        /\ UNCHANGED <<sessions, issued>>

(***************************************************************************)
(* POST /stock/checkout                                                    *)
(***************************************************************************)
\* first line whose product does not exist (0 if every product exists)
RECURSIVE checkout_missing(_)
checkout_missing(items) ==
    IF items = <<>> THEN 0
    ELSE IF Head(items).product_id \notin DOMAIN products THEN Head(items).product_id
    ELSE checkout_missing(Tail(items))

\* one entry of unavailable_items
Unavailable(item) ==
    [product_id |-> item.product_id, product_name |-> products[item.product_id].name,
     requested_quantity |-> item.quantity,
     available_quantity |-> products[item.product_id].stock]

\* a validation that stops at the first short line
checkout_unavailable_first_only(items) ==
    LET short == {i \in DOMAIN items : products[items[i].product_id].stock < items[i].quantity}
    IN  IF short = {} THEN <<>> ELSE <<Unavailable(items[Min(short)])>>

\* unavailable_items: every line asking for more than the product's stock
RECURSIVE checkout_unavailable(_)
checkout_unavailable(items) ==
    IF items = <<>> THEN <<>>
    ELSE (IF products[Head(items).product_id].stock < Head(items).quantity
          THEN <<Unavailable(Head(items))>> ELSE <<>>)
         \o checkout_unavailable(Tail(items))

\* total_price += item.price * item.quantity
RECURSIVE checkout_total(_)
checkout_total(items) ==
    IF items = <<>> THEN 0
    ELSE Head(items).price * Head(items).quantity + checkout_total(Tail(items))

checkout(token, items, address, payment_method) ==
    LET cu    == get_current_user(token)
        id    == NextId(OrderIds)
        order == NewOrder(cu.uid, checkout_total(items), address, payment_method, items)
    IN  /\ Received([payment_method |-> payment_method, op |-> "checkout", token |-> token,
                   items |-> items, address |-> address])
        /\ IF cu.code # 200
           THEN resp' = Response(cu.code, cu.detail) /\ UNCHANGED db
           ELSE IF \/ ~OrderCreateSchemaAccepts(items, address, payment_method)
                   \/ \E i \in DOMAIN items : items[i].price <= 0
           THEN resp' = Unprocessable /\ UNCHANGED db
           ELSE IF checkout_missing(items) # 0
           THEN resp' = Response(404, "Produto nao encontrado") /\ UNCHANGED db
           ELSE IF checkout_unavailable(items) # <<>>
           THEN /\ resp' = ResponseBody(400, "Alguns itens nao tem estoque suficiente",
                                        checkout_unavailable(items))
                /\ UNCHANGED db
           ELSE /\ orders' = (id :> order) @@ orders
                /\ products' = DecrementStock(products, items)
                /\ resp' = IF OrderSerializes(order)
                           THEN ResponseBody(201, "created", <<id>>)
                           ELSE InternalServerError
                /\ UNCHANGED <<users, categories, carts, cart_items, cart_item_seq, files>>
        /\ UNCHANGED <<sessions, issued>>

(***************************************************************************)
(* PUT /orders/{id}/cancel                                                 *)
(***************************************************************************)
\* a loop that stops after the first line
RestoreStock_first_line_only(prods, items) ==
    IF items = <<>> THEN prods
    ELSE [prods EXCEPT ![Head(items).product_id].stock = @ + Head(items).quantity]

\* `product.stock += item.quantity` for each line of the order in turn
RECURSIVE RestoreStock(_, _)
RestoreStock(prods, items) ==
    IF items = <<>> THEN prods
    ELSE RestoreStock(
            [prods EXCEPT ![Head(items).product_id].stock = @ + Head(items).quantity],
            Tail(items))

\* the detail of the rejection reads order.status.value
cancel_order_rejection ==
    IF StatusHasValueAttr
    THEN Response(400, "Pedido com este status nao pode ser cancelado")
    ELSE InternalServerError

cancel_order(token, order_id) ==
    LET cu    == get_current_user(token)
        id    == OwnedOrder(order_id, cu.uid)
        order == orders[id]
    IN  /\ Received([op |-> "cancel_order", token |-> token, order_id |-> order_id])
        /\ IF cu.code # 200
           THEN resp' = Response(cu.code, cu.detail) /\ UNCHANGED db
           ELSE IF id = 0
           THEN resp' = Response(404, "Pedido nao encontrado") /\ UNCHANGED db
           ELSE IF order.status # "pending"
           THEN resp' = cancel_order_rejection /\ UNCHANGED db
           ELSE IF \E i \in DOMAIN order.items : order.items[i].product_id \notin DOMAIN products
           THEN resp' = InternalServerError /\ UNCHANGED db
           ELSE /\ \A p \in DOMAIN products :
                      products[p].stock + QuantityOf(order.items, p) <= MaxStock
                /\ orders' = [orders EXCEPT ![id].status = "cancelled"]
                /\ products' = RestoreStock(products, order.items)
                /\ resp' = IF OrderSerializes(orders'[id])
                           THEN ResponseBody(200, "ok", <<id>>)
                           ELSE InternalServerError
                /\ UNCHANGED <<users, categories, carts, cart_items, cart_item_seq, files>>
        /\ UNCHANGED <<sessions, issued>>

(***************************************************************************)
(* PUT /orders/{id}/status                                                 *)
(***************************************************************************)
update_order_status(token, order_id, new_status) ==
    LET cu == get_current_user(token)
        id == OwnedOrder(order_id, cu.uid)
    IN  /\ Received([op |-> "update_order_status", token |-> token, order_id |-> order_id,
                   new_status |-> new_status])
        /\ IF cu.code # 200
           THEN resp' = Response(cu.code, cu.detail) /\ UNCHANGED db
           ELSE IF id = 0
           THEN resp' = Response(404, "Pedido nao encontrado") /\ UNCHANGED db
           ELSE IF new_status \notin OrderStatusValues
           THEN resp' = Response(400, "Status invalido") /\ UNCHANGED db
           ELSE /\ orders' = [orders EXCEPT ![id].status = new_status]
                /\ resp' = IF OrderSerializes(orders'[id])
                           THEN ResponseBody(200, "ok", <<id>>)
                           ELSE InternalServerError
                /\ UNCHANGED <<users, categories, products, carts, cart_items,
                               cart_item_seq, files>>
        /\ UNCHANGED <<sessions, issued>>

(***************************************************************************)
(* GET /orders/{id}, GET /orders/{id}/status, GET /orders                  *)
(***************************************************************************)
get_order(token, order_id) ==
    LET cu == get_current_user(token)
        id == OwnedOrder(order_id, cu.uid)
    IN  /\ Received([op |-> "get_order", token |-> token, order_id |-> order_id])
        /\ resp' = IF cu.code # 200 THEN Response(cu.code, cu.detail)
                   ELSE IF id = 0 THEN Response(404, "Pedido nao encontrado")
                   ELSE IF OrderSerializes(orders[id]) THEN ResponseBody(200, "ok", <<id>>)
                   ELSE InternalServerError
        /\ UNCHANGED <<db, sessions, issued>>

get_order_status(token, order_id) ==
    LET cu == get_current_user(token)
        id == OwnedOrder(order_id, cu.uid)
    IN  /\ Received([op |-> "get_order_status", token |-> token, order_id |-> order_id])
        /\ resp' = IF cu.code # 200 THEN Response(cu.code, cu.detail)
                   ELSE IF id = 0 THEN Response(404, "Pedido nao encontrado")
                   ELSE IF StatusHasValueAttr THEN ResponseBody(200, orders[id].status, <<id>>)
                   ELSE InternalServerError
        /\ UNCHANGED <<db, sessions, issued>>

\* an optional date parameter: absent, unparseable, or a point in time
NoDate       == [given |-> FALSE, parses |-> FALSE, at |-> 0]
BadDate      == [given |-> TRUE,  parses |-> FALSE, at |-> 0]
DateAt(t)    == [given |-> TRUE,  parses |-> TRUE,  at |-> t]
\* an optional price bound
NoPrice      == [given |-> FALSE, value |-> 0]
PriceOf(v)   == [given |-> TRUE,  value |-> v]

\* the filters of list_orders on the caller's orders
list_orders_filter(uid, q) ==
    {o \in OrderIds :
        /\ orders[o].user_id = uid
        /\ (q.status_filter # None /\ q.status_filter \in OrderStatusValues)
              => orders[o].status = q.status_filter
        /\ (q.min_date.given /\ q.min_date.parses) => orders[o].created_at >= q.min_date.at
        /\ (q.max_date.given /\ q.max_date.parses) => orders[o].created_at <= q.max_date.at
        /\ q.min_price.given => orders[o].total_price >= q.min_price.value
        /\ q.max_price.given => orders[o].total_price <= q.max_price.value}

\* the sort key of list_orders; rows with equal keys are kept in id order
list_orders_before(a, b, sort_by, sort_order) ==
    LET ka == IF sort_by = "total_price" THEN orders[a].total_price ELSE orders[a].created_at
        kb == IF sort_by = "total_price" THEN orders[b].total_price ELSE orders[b].created_at
    IN  IF ka = kb THEN a < b
        ELSE IF sort_order = "asc" THEN ka < kb ELSE ka > kb

RECURSIVE list_orders_sort(_, _, _)
list_orders_sort(S, sort_by, sort_order) ==
    IF S = {} THEN <<>>
    ELSE LET first == CHOOSE a \in S :
                         \A b \in S \ {a} : list_orders_before(a, b, sort_by, sort_order)
         IN  <<first>> \o list_orders_sort(S \ {first}, sort_by, sort_order)

\* query.offset(skip).limit(limit)
Page(s, skip, limit) ==
    SubSeq(s, skip + 1, IF skip + limit < Len(s) THEN skip + limit ELSE Len(s))

list_orders(token, q) ==
    LET cu         == get_current_user(token)
        skip       == IF q.skip < 0 THEN 0 ELSE q.skip
        limit      == IF q.limit < 1 \/ q.limit > 100 THEN 10 ELSE q.limit
        sort_order == IF q.sort_order \notin {"asc", "desc"} THEN "desc" ELSE q.sort_order
        sort_by    == IF q.sort_by \notin {"created_at", "total_price"}
                      THEN "created_at" ELSE q.sort_by
        rows       == Page(list_orders_sort(list_orders_filter(cu.uid, q), sort_by, sort_order),
                           skip, limit)
    IN  /\ Received([op |-> "list_orders", token |-> token, query |-> q])
        /\ resp' = IF cu.code # 200 THEN Response(cu.code, cu.detail)
                   ELSE IF \A i \in DOMAIN rows : OrderSerializes(orders[rows[i]])
                   THEN ResponseBody(200, "ok", rows)
                   ELSE InternalServerError
        /\ UNCHANGED <<db, sessions, issued>>

(***************************************************************************)
(* PUT /products/{id}                                                      *)
(***************************************************************************)
\* an optional field of an update body
Absent   == [given |-> FALSE, value |-> 0]
Given(v) == [given |-> TRUE, value |-> v]

\* request schema ProductUpdate: name of 3..200 characters, price > 0,
\* category_id > 0, stock >= 0
ProductUpdateSchemaAccepts(data) ==
    /\ data.name.given => (Len(data.name.value) >= 3 /\ Len(data.name.value) <= 200)
    /\ data.price.given => data.price.value > 0
    /\ data.category_id.given => data.category_id.value > 0
    /\ data.stock.given => data.stock.value >= 0

update_product(token, product_id, data) ==
    LET cu == get_current_admin_user(token)
        p  == products[product_id]
    IN  /\ Received([op |-> "update_product", token |-> token, product_id |-> product_id,
                   data |-> data])
        /\ IF cu.code # 200
           THEN resp' = Response(cu.code, cu.detail) /\ UNCHANGED db
           ELSE IF ~ProductUpdateSchemaAccepts(data)
           THEN resp' = Unprocessable /\ UNCHANGED db
           ELSE IF product_id \notin DOMAIN products
           THEN resp' = Response(404, "Produto nao encontrado") /\ UNCHANGED db
           ELSE IF data.category_id.given /\ data.category_id.value \notin DOMAIN categories
           THEN resp' = Response(404, "Categoria nao encontrada") /\ UNCHANGED db
           ELSE /\ products' = [products EXCEPT ![product_id] =
                      [name        |-> IF data.name.given THEN data.name.value ELSE p.name,
                       price       |-> IF data.price.given THEN data.price.value ELSE p.price,
                       category_id |-> IF data.category_id.given
                                       THEN data.category_id.value ELSE p.category_id,
                       stock       |-> IF data.stock.given THEN data.stock.value ELSE p.stock,
                       is_active   |-> IF data.is_active.given
                                       THEN data.is_active.value ELSE p.is_active,
                       image_url   |-> IF data.image_url.given
                                       THEN data.image_url.value ELSE p.image_url]]
                /\ resp' = ResponseBody(200, "ok", <<product_id>>)
                /\ UNCHANGED <<users, categories, carts, cart_items, cart_item_seq,
                               orders, files>>
        /\ UNCHANGED <<sessions, issued>>

ProductUpdate(name, price, category_id, stock, is_active, image_url) ==
    [name |-> name, price |-> price, category_id |-> category_id, stock |-> stock,
     is_active |-> is_active, image_url |-> image_url]

StockEdit(stock) == ProductUpdate(Absent, Absent, Absent, stock, Absent, Absent)

(***************************************************************************)
(* Specification Spec: the order life cycle, requests one at a time        *)
(***************************************************************************)
\* no order is placed once this many orders exist
MaxOrders == 1

AliceToken == TokenFor("alice@x")
BobToken   == TokenFor("bob@x")
AdminToken == TokenFor("admin@x")
CarolToken == TokenFor("carol@x")

CategoriesInit ==
    (1 :> [name |-> "Roupas", description |-> "roupas", is_active |-> TRUE]) @@
    (2 :> [name |-> "Calcados", description |-> "calcados", is_active |-> TRUE])

ProductsInit ==
    (1 :> ProductRow("A", 10, 1, 5, TRUE)) @@
    (2 :> ProductRow("B", 5, 1, 5, TRUE)) @@
    (3 :> ProductRow("C", 7, 2, 5, FALSE))

NoSessions == [s \in {} |-> 0]
NoFiles    == [f \in {} |-> TRUE]
NoOrders   == [o \in {} |-> 0]
NoRequest  == [op |-> "none"]

Init ==
    /\ users = UsersInit
    /\ categories = CategoriesInit
    /\ products = ProductsInit
    /\ carts = {[id |-> 1, user_id |-> Alice], [id |-> 2, user_id |-> Bob]}
    /\ cart_items = {[id |-> 1, cart_id |-> 1, product_id |-> 3, quantity |-> 1, price_at_time |-> 7],
                     [id |-> 2, cart_id |-> 2, product_id |-> 1, quantity |-> 1, price_at_time |-> 10]}
    /\ cart_item_seq = 2
    /\ orders = NoOrders
    /\ files = NoFiles
    /\ sessions = NoSessions
    /\ issued = {}
    /\ req = NoRequest
    /\ resp = Response(0, "none")
    /\ before = ProductsInit

\* the lines sent to POST /orders
CreateOrderItems ==
    { <<Line(1, 2, 0), Line(2, 3, 0)>>,     \* A x 2 and B x 3
      <<Line(1, 2, 99), Line(2, 3, 1)>>,    \* the same, with unit prices sent along
      <<Line(1, 2, 0), Line(1, 1, 0)>>,     \* the same product twice
      <<Line(9, 1, 0)>>,                    \* no such product
      <<Line(3, 1, 0)>>,                    \* inactive product
      <<Line(2, 7, 0)>>,                    \* more than the stock
      <<Line(1, 0, 0)>>,                    \* rejected by the schema
      <<>> }

\* the lines sent to POST /stock/checkout, with the caller's unit price
CheckoutItems ==
    { <<Line(1, 3, 4), Line(1, 3, 4)>>,     \* the same product twice
      <<Line(2, 1, 2)>>,
      <<Line(2, 7, 1), Line(1, 7, 1)>>,     \* two short lines
      <<Line(1, 2, 1), Line(2, 7, 1), Line(1, 7, 1)>>,
      <<Line(3, 1, 7)>>,                    \* inactive product
      <<Line(9, 1, 1)>>,                    \* no such product
      <<Line(1, 1, 0)>> }                   \* rejected by the schema

StatusInputs == {"pending", "confirmed", "cancelled", "processing"}

ListQuery(status_filter, min_price, skip, limit, sort_by, sort_order) ==
    [status_filter |-> status_filter, min_date |-> NoDate, max_date |-> NoDate,
     min_price |-> min_price, max_price |-> NoPrice, skip |-> skip, limit |-> limit,
     sort_by |-> sort_by, sort_order |-> sort_order]

ListQueries ==
    { ListQuery(None, NoPrice, 0, 10, "created_at", "desc"),
      ListQuery("pending", PriceOf(20), 0, 0, "total_price", "asc"),
      [ListQuery("bogus", NoPrice, 1, 1, "id", "up")
          EXCEPT !.min_date = BadDate, !.max_date = DateAt(1)] }

\* who asks for which order: the owner, another user, nobody, a missing order
OrderProbes ==
    { <<AliceToken, 1>>, <<AliceToken, 2>>, <<BobToken, 1>>, <<AliceToken, 9>>,
      <<GarbageToken, 1>> }

PlaceOrder ==
    /\ Cardinality(OrderIds) < MaxOrders
    /\ \/ \E items \in CreateOrderItems : create_order(AliceToken, items, GoodAddress, "pix")
       \/ create_order(BobToken, <<Line(1, 1, 0)>>, GoodAddress, "pix")
       \/ create_order(AliceToken, <<Line(1, 2, 0), Line(2, 3, 0)>>, BlankAddress, "pix")
       \/ create_order(AliceToken, <<Line(1, 2, 0), Line(2, 3, 0)>>, GoodAddress, "cash")
       \/ create_order(GarbageToken, <<Line(1, 2, 0), Line(2, 3, 0)>>, GoodAddress, "pix")

Checkout ==
    /\ Cardinality(OrderIds) < MaxOrders
    /\ \/ \E items \in CheckoutItems : checkout(AliceToken, items, GoodAddress, "pix")
       \/ checkout(GarbageToken, <<Line(2, 1, 2)>>, GoodAddress, "pix")

CancelOrder ==
    \E probe \in OrderProbes : cancel_order(probe[1], probe[2])

UpdateOrderStatus ==
    \/ \E new_status \in StatusInputs : update_order_status(AliceToken, 1, new_status)
    \/ \E probe \in OrderProbes \ {<<AliceToken, 1>>, <<AliceToken, 2>>} :
          update_order_status(probe[1], probe[2], "cancelled")

GetOrder ==
    \E probe \in OrderProbes : get_order(probe[1], probe[2])

GetOrderStatus ==
    \E probe \in OrderProbes : get_order_status(probe[1], probe[2])

ListOrders ==
    \/ \E q \in ListQueries : list_orders(AliceToken, q)
    \/ \E token \in {BobToken, GarbageToken} :
          list_orders(token, ListQuery(None, NoPrice, 0, 10, "created_at", "desc"))

EditStock ==
    \/ \E stock \in {Given(0), Given(0 - 1)} :
          update_product(AdminToken, 1, StockEdit(stock))
    \/ update_product(AdminToken, 1, ProductUpdate(Absent, Given(12), Absent, Absent,
                                                   Absent, Absent))
    \/ update_product(AliceToken, 1, StockEdit(Given(0)))
    \/ update_product(AdminToken, 9, StockEdit(Given(0)))

Next ==
    \/ PlaceOrder
    \/ Checkout
    \/ CancelOrder
    \/ UpdateOrderStatus
    \/ GetOrder
    \/ GetOrderStatus
    \/ ListOrders
    \/ EditStock

Spec == Init /\ [][Next]_vars

(***************************************************************************)
(* Properties of the order life cycle (specification Spec)                 *)
(***************************************************************************)
Caller(request) == get_current_user(request.token)

PlacedBy(request, response) ==
    /\ request.op \in {"create_order", "checkout"}
    /\ response.code = 201

\* C1: when POST /orders succeeds, a new pending order owned by the caller
\* exists, the stock of the product of every line is the stock before the
\* request minus that line's quantity, and every product no line names keeps
\* its stock.
C1_CreateOrderEffect ==
    [][ (req'.op = "create_order" /\ resp'.code = 201) =>
          LET id    == resp'.body[1]
              items == req'.items
          IN  /\ id \notin DOMAIN orders
              /\ DOMAIN orders' = DOMAIN orders \cup {id}
              /\ \A o \in DOMAIN orders : orders'[o] = orders[o]
              /\ orders'[id].status = "pending"
              /\ orders'[id].user_id = Caller(req').uid
              /\ Caller(req').code = 200
              /\ DOMAIN products' = DOMAIN products
              /\ \A i \in DOMAIN items :
                    products'[items[i].product_id].stock
                        = products[items[i].product_id].stock - items[i].quantity
              /\ \A p \in DOMAIN products :
                    (\A i \in DOMAIN items : items[i].product_id # p)
                        => products'[p].stock = products[p].stock
      ]_vars

\* an order of two lines has just been placed through POST /orders
C1_Witness ==
    /\ req.op = "create_order"
    /\ resp.code = 201
    /\ Len(req.items) = 2
    /\ Len(orders[resp.body[1]].items) = 2
    /\ products[1].stock = before[1].stock - 2
    /\ products[2].stock = before[2].stock - 3
    /\ products[3].stock = before[3].stock

\* the owner asks to cancel an order of theirs that is pending
CancelOfOwnPending(request) ==
    /\ request.op = "cancel_order"
    /\ Caller(request).code = 200
    /\ request.order_id \in DOMAIN orders
    /\ orders[request.order_id].user_id = Caller(request).uid
    /\ orders[request.order_id].status = "pending"

\* C2: cancelling a pending order by its owner sets its status to cancelled
\* and adds to the stock of each line's product exactly that line's quantity;
\* an order placed by one request and cancelled by the next leaves every
\* product's stock as it was before the order was placed.
C2_CancelRestoresStock ==
    [][ /\ CancelOfOwnPending(req') =>
            /\ orders'[req'.order_id].status = "cancelled"
            /\ DOMAIN products' = DOMAIN products
            /\ \A p \in DOMAIN products :
                  products'[p].stock
                      = products[p].stock + QuantityOf(orders[req'.order_id].items, p)
        /\ (PlacedBy(req, resp) /\ CancelOfOwnPending(req') /\ req'.order_id = resp.body[1]) =>
            \A p \in DOMAIN products : products'[p].stock = before[p].stock
      ]_vars

\* an order of two lines has just been cancelled and its quantities are back
C2_Witness ==
    /\ req.op = "cancel_order"
    /\ resp.code = 200
    /\ orders[req.order_id].status = "cancelled"
    /\ Len(orders[req.order_id].items) = 2
    /\ \E p \in DOMAIN products : products[p].stock > before[p].stock
    /\ \A p \in DOMAIN products :
          products[p].stock = before[p].stock + QuantityOf(orders[req.order_id].items, p)

\* the owner asks to cancel an order of theirs that is not pending
CancelOfOwnNonPending(request) ==
    /\ request.op = "cancel_order"
    /\ Caller(request).code = 200
    /\ request.order_id \in DOMAIN orders
    /\ orders[request.order_id].user_id = Caller(request).uid
    /\ orders[request.order_id].status # "pending"

\* C3: a cancel request for an order that is not pending is rejected with 400
\* and leaves the order's status and every stock unchanged.
C3_CancelNonPendingRejected400 ==
    [][ CancelOfOwnNonPending(req') =>
          /\ resp'.code = 400
          /\ orders' = orders
          /\ products' = products
      ]_vars

\* C4: an order's status becomes cancelled only in a step in which its
\* previous status was pending.
C4_CancelledOnlyFromPending ==
    [][ \A o \in DOMAIN orders :
          (orders'[o].status = "cancelled" /\ orders[o].status # "cancelled")
              => orders[o].status = "pending"
      ]_vars

\* C5: with requests executed one at a time, every product's stock is an
\* integer greater than or equal to 0.
C5_StockNeverNegative ==
    \A p \in DOMAIN products : products[p].stock \in Nat

\* a request that names an order of another user
ForeignOrderRequest(request) ==
    /\ request.op \in {"get_order", "cancel_order", "get_order_status", "update_order_status"}
    /\ Caller(request).code = 200
    /\ request.order_id \in DOMAIN orders
    /\ orders[request.order_id].user_id # Caller(request).uid

\* a request that names an order that does not exist
MissingOrderRequest(request) ==
    /\ request.op \in {"get_order", "cancel_order", "get_order_status", "update_order_status"}
    /\ Caller(request).code = 200
    /\ request.order_id \notin DOMAIN orders

\* C10: get, cancel, get-status and update-status answer a request for another
\* user's order exactly as they answer a request for a missing order (404,
\* "Pedido nao encontrado") and change nothing; a returned order, and every
\* order of a listing, belongs to the caller.
C10_ForeignOrderIsNotFound ==
    [][ /\ (ForeignOrderRequest(req') \/ MissingOrderRequest(req')) =>
            /\ resp' = Response(404, "Pedido nao encontrado")
            /\ db' = db
        /\ (req'.op \in {"get_order", "get_order_status", "list_orders"} /\ resp'.code = 200) =>
            \A i \in DOMAIN resp'.body : orders[resp'.body[i]].user_id = Caller(req').uid
        /\ (req'.op \in {"cancel_order", "update_order_status"} /\ orders' # orders) =>
            \A o \in DOMAIN orders :
                orders'[o] # orders[o] => orders[o].user_id = Caller(req').uid
      ]_vars

\* another user has just asked to cancel a pending order and was answered 404
C10_Witness ==
    /\ req.op = "cancel_order"
    /\ Caller(req).code = 200
    /\ req.order_id \in DOMAIN orders
    /\ orders[req.order_id].user_id # Caller(req).uid
    /\ orders[req.order_id].status = "pending"
    /\ resp.code = 404

\* positions of the request's lines that ask for more than the stock
ShortLines(items) ==
    {i \in DOMAIN items : products[items[i].product_id].stock < items[i].quantity}

\* C17: POST /stock/checkout that passes authentication and its schema,
\* names existing products only and has at least one line asking for more
\* than the product's stock is answered 400 with one entry per short line of
\* the request, in request order, each with the requested and the available
\* quantity; no order is created and no stock changes.
C17_CheckoutListsEveryShortLine ==
    [][ ( /\ req'.op = "checkout"
          /\ Caller(req').code = 200
          /\ OrderCreateSchemaAccepts(req'.items, req'.address, req'.payment_method)
          /\ \A i \in DOMAIN req'.items :
                /\ req'.items[i].price > 0
                /\ req'.items[i].product_id \in DOMAIN products
          /\ ShortLines(req'.items) # {} )
        => /\ resp'.code = 400
           /\ Len(resp'.body) = Cardinality(ShortLines(req'.items))
           /\ \A i \in ShortLines(req'.items) :
                 LET k == Cardinality({j \in ShortLines(req'.items) : j <= i})
                 IN  /\ resp'.body[k].product_id = req'.items[i].product_id
                     /\ resp'.body[k].requested_quantity = req'.items[i].quantity
                     /\ resp'.body[k].available_quantity =
                           products[req'.items[i].product_id].stock
           /\ orders' = orders
           /\ products' = products
      ]_vars

\* three lines, the first within stock and the other two short: the
\* answer lists product 2 and product 1, not the first line
C17_Witness ==
    /\ req.op = "checkout"
    /\ req.items = <<Line(1, 2, 1), Line(2, 7, 1), Line(1, 7, 1)>>
    /\ resp.code = 400
    /\ Len(resp.body) = 2
    /\ resp.body[1].product_id = 2
    /\ resp.body[2].product_id = 1
    /\ resp.body[2].requested_quantity = 7
    /\ resp.body[2].available_quantity < 7

\* C20: PUT /orders/{id}/status by the order's owner sets the status to
\* new_status exactly when new_status is one of pending, processing, shipped,
\* delivered, cancelled; any other string is answered 400 and the order is
\* left unchanged.
C20_StatusSetExactlyForEnumValues ==
    [][ ( /\ req'.op = "update_order_status"
          /\ Caller(req').code = 200
          /\ OwnedOrder(req'.order_id, Caller(req').uid) # 0 )
        => IF req'.new_status \in {"pending", "processing", "shipped", "delivered",
                                   "cancelled"}
           THEN /\ orders' = [orders EXCEPT ![req'.order_id].status = req'.new_status]
                /\ resp'.code = 200
           ELSE /\ resp'.code = 400
                /\ orders' = orders
      ]_vars

\* C24: a successful POST /orders by a caller who has a cart leaves that cart
\* with no item, whether or not the item's product is in the order; it keeps
\* every cart row and every item of the other users' carts.
C24_OrderClearsCallersCartOnly ==
    [][ (req'.op = "create_order" /\ resp'.code = 201) =>
          LET mine == {c.id : c \in {c \in carts : c.user_id = Caller(req').uid}}
          IN  /\ carts' = carts
              /\ \A ci \in cart_items' : ci.cart_id \notin mine
              /\ \A ci \in cart_items : ci.cart_id \notin mine => ci \in cart_items'
              /\ cart_items' \subseteq cart_items
      ]_vars

\* Alice's cart held product 3, which her order did not name: the order is
\* placed, her cart row is kept and empty, Bob's cart item is still there
C24_Witness ==
    /\ req.op = "create_order"
    /\ resp.code = 201
    /\ Caller(req).uid = Alice
    /\ \A i \in DOMAIN req.items : req.items[i].product_id # 3
    /\ [id |-> 1, user_id |-> Alice] \in carts
    /\ \A ci \in cart_items : ci.cart_id # 1
    /\ \E ci \in cart_items : ci.cart_id = 2 /\ ci.product_id = 1

\* C25: every line of an order created by POST /orders or by POST
\* /stock/checkout names a product that existed and was active when the
\* request arrived.
C25_OrderLinesForActiveProducts ==
    [][ PlacedBy(req', resp') =>
          \A i \in DOMAIN orders'[resp'.body[1]].items :
              LET pid == orders'[resp'.body[1]].items[i].product_id
              IN  pid \in DOMAIN products /\ products[pid].is_active
      ]_vars

\* quantity of product p held by the orders of ords that are not cancelled
RECURSIVE HeldByOrders(_, _, _)
HeldByOrders(ords, ids, p) ==
    IF ids = {} THEN 0
    ELSE LET o == Min(ids)
         IN  (IF ords[o].status # "cancelled" THEN QuantityOf(ords[o].items, p) ELSE 0)
             + HeldByOrders(ords, ids \ {o}, p)

\* C21: across every order create (POST /orders), order cancel and order
\* status-update request, each product's stock plus the quantity of that
\* product held in orders that are not cancelled stays what it was: the
\* quantities of an order go back to the stock exactly once, and only when
\* the order becomes cancelled.
C21_StockPlusHeldConstant ==
    [][ req'.op \in {"create_order", "cancel_order", "update_order_status"}
        => /\ DOMAIN products' = DOMAIN products
           /\ \A p \in DOMAIN products :
                 products'[p].stock + HeldByOrders(orders', DOMAIN orders', p)
                     = products[p].stock + HeldByOrders(orders, DOMAIN orders, p)
      ]_vars

(***************************************************************************)
(* Cart: POST /cart/items, PUT and DELETE /cart/items/{id}, DELETE /cart   *)
(***************************************************************************)
\* request schema CartItemCreate: quantity > 0 (product_id is any integer)
CartItemCreateSchemaAccepts(product_id, quantity) == quantity > 0

\* a limit that is never exceeded
ExceedsMaxQuantity_never(quantity) == FALSE

\* `if item.quantity > 1000`, `if new_quantity > 1000`, `if quantity > 1000`
ExceedsMaxQuantity(quantity) == quantity > 1000

CartItemById(item_id) == CHOOSE ci \in cart_items : ci.id = item_id

\* a lookup that never finds the line
ExistingCartItem_never_found(cart_id, product_id) == 0

\* db.query(CartItem).filter(CartItem.cart_id == cart.id,
\*                           CartItem.product_id == item.product_id).first()
ExistingCartItem(cart_id, product_id) ==
    LET found == {ci \in cart_items : ci.cart_id = cart_id /\ ci.product_id = product_id}
    IN  IF found = {} THEN 0 ELSE Min({ci.id : ci \in found})

\* db.query(CartItem).join(Cart).filter(CartItem.id == item_id,
\*                                      Cart.user_id == current_user.id).first()
OwnedCartItem(item_id, uid) ==
    LET found == {ci \in cart_items :
                     /\ ci.id = item_id
                     /\ \E c \in carts : c.id = ci.cart_id /\ c.user_id = uid}
    IN  IF found = {} THEN 0 ELSE item_id

add_item_to_cart(token, product_id, quantity) ==
    LET cu       == get_current_user(token)
        product  == products[product_id]
        cart     == CartOf(cu.uid)
        cart_id  == IF cart = 0 THEN NextId({c.id : c \in carts}) ELSE cart
        existing == ExistingCartItem(cart_id, product_id)
        line     == CartItemById(existing)
        new_quantity == line.quantity + quantity
        new_id   == cart_item_seq + 1
    IN  /\ Received([op |-> "add_item_to_cart", token |-> token,
                   product_id |-> product_id, quantity |-> quantity])
        /\ IF cu.code # 200
           THEN resp' = Response(cu.code, cu.detail) /\ UNCHANGED db
           ELSE IF ~CartItemCreateSchemaAccepts(product_id, quantity)
           THEN resp' = Unprocessable /\ UNCHANGED db
           ELSE IF product_id <= 0
           THEN resp' = Response(400, "ID do produto deve ser um numero positivo") /\ UNCHANGED db
           ELSE IF quantity <= 0
           THEN resp' = Response(400, "Quantidade deve ser maior que zero") /\ UNCHANGED db
           ELSE IF ExceedsMaxQuantity(quantity)
           THEN resp' = Response(400, "Quantidade nao pode exceder 1000 unidades") /\ UNCHANGED db
           ELSE IF product_id \notin DOMAIN products
           THEN resp' = Response(404, "Produto nao encontrado") /\ UNCHANGED db
           ELSE IF ~product.is_active
           THEN resp' = Response(400, "Produto nao esta disponivel para compra") /\ UNCHANGED db
           ELSE IF product.stock < quantity
           THEN resp' = Response(400, "Estoque insuficiente") /\ UNCHANGED db
           ELSE IF existing # 0
           THEN IF ExceedsMaxQuantity(new_quantity)
                THEN resp' = Response(400, "Quantidade total nao pode exceder 1000 unidades")
                     /\ UNCHANGED db
                ELSE IF product.stock < new_quantity
                THEN resp' = Response(400, "Estoque insuficiente") /\ UNCHANGED db
                ELSE /\ cart_items' = (cart_items \ {line})
                                        \cup {[line EXCEPT !.quantity = new_quantity]}
                     /\ resp' = ResponseBody(201, "created", <<existing>>)
                     /\ UNCHANGED <<users, categories, products, carts, cart_item_seq,
                                    orders, files>>
           ELSE IF Cardinality({ci \in cart_items : ci.cart_id = cart_id}) >= 100
           THEN resp' = Response(400, "Carrinho nao pode conter mais de 100 produtos diferentes")
                /\ UNCHANGED db
           ELSE /\ cart_item_seq < MaxCartItemId
                /\ carts' = carts \cup {[id |-> cart_id, user_id |-> cu.uid]}
                /\ cart_items' = cart_items \cup
                      {[id |-> new_id, cart_id |-> cart_id, product_id |-> product_id,
                        quantity |-> quantity, price_at_time |-> product.price]}
                /\ cart_item_seq' = new_id
                /\ resp' = ResponseBody(201, "created", <<new_id>>)
                /\ UNCHANGED <<users, categories, products, orders, files>>
        /\ UNCHANGED <<sessions, issued>>

update_cart_item(token, item_id, quantity) ==
    LET cu      == get_current_user(token)
        owned   == OwnedCartItem(item_id, cu.uid)
        line    == CartItemById(owned)
        product == products[line.product_id]
    IN  /\ Received([op |-> "update_cart_item", token |-> token, item_id |-> item_id,
                   quantity |-> quantity])
        /\ IF cu.code # 200
           THEN resp' = Response(cu.code, cu.detail) /\ UNCHANGED db
           ELSE IF item_id <= 0
           THEN resp' = Response(400, "ID do item deve ser um numero positivo") /\ UNCHANGED db
           ELSE IF quantity <= 0
           THEN resp' = Response(400, "Quantidade deve ser maior que zero") /\ UNCHANGED db
           ELSE IF ExceedsMaxQuantity(quantity)
           THEN resp' = Response(400, "Quantidade nao pode exceder 1000 unidades") /\ UNCHANGED db
           ELSE IF owned = 0
           THEN resp' = Response(404, "Item do carrinho nao encontrado") /\ UNCHANGED db
           ELSE IF line.product_id \notin DOMAIN products
           THEN resp' = Response(400, "Produto associado ao item nao existe mais") /\ UNCHANGED db
           ELSE IF ~product.is_active
           THEN resp' = Response(400, "Produto nao esta mais disponivel para compra")
                /\ UNCHANGED db
           ELSE IF product.stock < quantity
           THEN resp' = Response(400, "Estoque insuficiente") /\ UNCHANGED db
           ELSE /\ cart_items' = (cart_items \ {line})
                                   \cup {[line EXCEPT !.quantity = quantity]}
                /\ resp' = ResponseBody(200, "ok", <<owned>>)
                /\ UNCHANGED <<users, categories, products, carts, cart_item_seq,
                               orders, files>>
        /\ UNCHANGED <<sessions, issued>>

remove_item_from_cart(token, item_id) ==
    LET cu    == get_current_user(token)
        owned == OwnedCartItem(item_id, cu.uid)
    IN  /\ Received([op |-> "remove_item_from_cart", token |-> token, item_id |-> item_id])
        /\ IF cu.code # 200
           THEN resp' = Response(cu.code, cu.detail) /\ UNCHANGED db
           ELSE IF owned = 0
           THEN resp' = Response(404, "Item do carrinho nao encontrado") /\ UNCHANGED db
           ELSE /\ cart_items' = cart_items \ {CartItemById(owned)}
                /\ resp' = Response(204, "no content")
                /\ UNCHANGED <<users, categories, products, carts, cart_item_seq,
                               orders, files>>
        /\ UNCHANGED <<sessions, issued>>

clear_cart(token) ==
    LET cu   == get_current_user(token)
        cart == CartOf(cu.uid)
    IN  /\ Received([op |-> "clear_cart", token |-> token])
        /\ IF cu.code # 200
           THEN resp' = Response(cu.code, cu.detail) /\ UNCHANGED db
           ELSE IF cart = 0
           THEN resp' = Response(404, "Carrinho nao encontrado") /\ UNCHANGED db
           ELSE /\ cart_items' = {ci \in cart_items : ci.cart_id # cart}
                /\ resp' = Response(204, "no content")
                /\ UNCHANGED <<users, categories, products, carts, cart_item_seq,
                               orders, files>>
        /\ UNCHANGED <<sessions, issued>>

(***************************************************************************)
(* Specification SpecCart: cart requests, one at a time                    *)
(***************************************************************************)
CartProductsInit ==
    (1 :> ProductRow("A", 10, 1, 7, TRUE)) @@
    (2 :> ProductRow("B", 5, 1, 1200, TRUE)) @@
    (3 :> ProductRow("C", 7, 2, 5, FALSE))

\* Bob already has a cart with one line; Alice has no cart yet
InitCart ==
    /\ users = UsersInit
    /\ categories = CategoriesInit
    /\ products = CartProductsInit
    /\ carts = {[id |-> 1, user_id |-> Bob]}
    /\ cart_items = {[id |-> 1, cart_id |-> 1, product_id |-> 1, quantity |-> 2,
                      price_at_time |-> 10]}
    /\ cart_item_seq = 1
    /\ orders = NoOrders
    /\ files = NoFiles
    /\ sessions = NoSessions
    /\ issued = {}
    /\ req = NoRequest
    /\ resp = Response(0, "none")
    /\ before = CartProductsInit

\* <<product_id, quantity>> sent to POST /cart/items by Alice
AddInputs ==
    { <<1, 3>>, <<1, 4>>, <<1, 8>>,            \* stock of product 1 is 7
      <<2, 500>>, <<2, 600>>, <<2, 1001>>,     \* stock of product 2 is 1200
      <<3, 1>>, <<9, 1>>, <<0, 1>>, <<1, 0>> }

AddItem ==
    \/ \E input \in AddInputs : add_item_to_cart(AliceToken, input[1], input[2])
    \/ add_item_to_cart(BobToken, 1, 3)
    \/ add_item_to_cart(GarbageToken, 1, 3)

UpdateItem ==
    \/ \E item_id \in {0, 1, 2}, quantity \in {0, 2, 1001} :
          update_cart_item(AliceToken, item_id, quantity)
    \/ update_cart_item(AliceToken, 2, 8)
    \/ update_cart_item(CarolToken, 1, 2)

RemoveItem ==
    \/ \E item_id \in {1, 2} : remove_item_from_cart(AliceToken, item_id)
    \/ remove_item_from_cart(GhostToken, 1)

ClearCart ==
    \E token \in {AliceToken, BobToken, NoSubToken} : clear_cart(token)

NextCart ==
    \/ AddItem
    \/ UpdateItem
    \/ RemoveItem
    \/ ClearCart

SpecCart == InitCart /\ [][NextCart]_vars

(***************************************************************************)
(* Properties of the cart (specification SpecCart)                         *)
(***************************************************************************)
OneLinePerProduct ==
    \A a, b \in cart_items :
        (a.cart_id = b.cart_id /\ a.product_id = b.product_id) => a = b

\* the caller adds a product that already has a line in the caller's cart
AddToExistingLine(request) ==
    /\ request.op = "add_item_to_cart"
    /\ Caller(request).code = 200
    /\ \E ci \in cart_items :
          /\ ci.cart_id = CartOf(Caller(request).uid)
          /\ ci.product_id = request.product_id

\* C7: a cart never holds two lines for the same product; POST /cart/items
\* for a product already in the caller's cart answers 400 and leaves the cart
\* as it was when the line's quantity plus the requested quantity exceeds
\* 1000 or the product's stock, and otherwise replaces the line's quantity by
\* the sum without inserting a line.
C7_OneLinePerProductAndMerge ==
    [][ /\ OneLinePerProduct'
        /\ AddToExistingLine(req') =>
             LET line  == CHOOSE ci \in cart_items :
                             /\ ci.cart_id = CartOf(Caller(req').uid)
                             /\ ci.product_id = req'.product_id
                 total == line.quantity + req'.quantity
             IN  IF total > 1000 \/ total > products[line.product_id].stock
                 THEN /\ resp'.code = 400
                      /\ cart_items' = cart_items
                      /\ carts' = carts
                 ELSE (req'.quantity > 0 /\ products[line.product_id].is_active) =>
                      /\ resp'.code = 201
                      /\ cart_items' = (cart_items \ {line})
                                         \cup {[line EXCEPT !.quantity = total]}
                      /\ carts' = carts
      ]_vars

\* Alice added 4 units of product 1 to a cart that held 3: one line of 7
C7_Witness ==
    /\ req.op = "add_item_to_cart"
    /\ req.token = AliceToken
    /\ req.product_id = 1
    /\ req.quantity = 4
    /\ resp.code = 201
    /\ {ci.quantity : ci \in {x \in cart_items :
            x.cart_id = CartOf(Alice) /\ x.product_id = 1}} = {7}
    /\ Cardinality({x \in cart_items : x.cart_id = CartOf(Alice) /\ x.product_id = 1}) = 1

CartsOwnedBy(uid) == {c \in carts : c.user_id = uid}

OneCartPerUser == \A uid \in DOMAIN users : Cardinality(CartsOwnedBy(uid)) <= 1

\* C13: each user owns at most one cart; the set of carts changes only when
\* a successful POST /cart/items of a user who had no cart adds that user's
\* cart, every successful POST /cart/items leaves its caller with a cart, and
\* no request removes a cart.
C13_OneCartPerUserCreatedLazily ==
    [][ /\ OneCartPerUser'
        /\ carts \subseteq carts'
        /\ carts' # carts =>
              /\ req'.op = "add_item_to_cart"
              /\ resp'.code = 201
              /\ CartsOwnedBy(Caller(req').uid) = {}
              /\ \E c \in carts' : /\ c.user_id = Caller(req').uid
                                    /\ carts' = carts \cup {c}
        /\ (req'.op = "add_item_to_cart" /\ resp'.code = 201) =>
              \E c \in carts' : c.user_id = Caller(req').uid
      ]_vars

\* Alice's second successful add (another product) found the cart her first
\* add created: one cart for Alice, holding two lines
C13_Witness ==
    /\ req.op = "add_item_to_cart"
    /\ req.token = AliceToken
    /\ req.product_id = 2
    /\ resp.code = 201
    /\ Cardinality(CartsOwnedBy(Alice)) = 1
    /\ Cardinality({ci \in cart_items :
                       \E c \in CartsOwnedBy(Alice) : ci.cart_id = c.id}) = 2
    /\ Cardinality(carts) = 2

\* C14: in every reachable state every cart line's quantity is between 1
\* and 1000 inclusive.
C14_CartQuantityInRange ==
    \A ci \in cart_items : ci.quantity >= 1 /\ ci.quantity <= 1000

\* Alice added 500 units of product 2 to a line that held 500: the line is
\* at the limit of 1000
C14_Witness ==
    /\ req.op = "add_item_to_cart"
    /\ req.token = AliceToken
    /\ req.product_id = 2
    /\ req.quantity = 500
    /\ resp.code = 201
    /\ \E ci \in cart_items : ci.product_id = 2 /\ ci.quantity = 1000

\* C19: the cart item create schema accepts a request exactly when its
\* quantity is an integer from 1 to 1000 and its product_id is positive, and
\* the update request is refused at the schema (422) for a quantity outside
\* 1 to 1000.
C19_CartSchemasAccept1To1000 ==
    [][ /\ req'.op = "add_item_to_cart" =>
              ( CartItemCreateSchemaAccepts(req'.product_id, req'.quantity)
                <=> ( /\ req'.quantity >= 1
                      /\ req'.quantity <= 1000
                      /\ req'.product_id > 0 ) )
        /\ ( /\ req'.op = "update_cart_item"
             /\ Caller(req').code = 200
             /\ (req'.quantity < 1 \/ req'.quantity > 1000) )
           => resp'.code = 422
      ]_vars

(***************************************************************************)
(* Categories: POST /categories, PUT and DELETE /categories/{id}           *)
(***************************************************************************)
\* a text sent by the client: as typed, after str.strip(), and whether it
\* holds one of the characters < > { } |
Text(raw, stripped, forbidden) ==
    [given |-> TRUE, raw |-> raw, stripped |-> stripped, forbidden |-> forbidden]
Plain(text) == Text(text, text, FALSE)
NoText == [given |-> FALSE, raw |-> "", stripped |-> "", forbidden |-> FALSE]

\* CategoryBase.name / CategoryUpdate.name with validate_name
CategoryNameAccepts(name) ==
    /\ Len(name.raw) >= 3
    /\ Len(name.raw) <= 100
    /\ name.stripped # ""
    /\ ~name.forbidden

\* CategoryBase.description / CategoryUpdate.description with validate_description
CategoryDescriptionAccepts(description) ==
    description.given =>
        /\ Len(description.raw) >= 10
        /\ Len(description.raw) <= 500
        /\ description.stripped # ""

CategoryCreateSchemaAccepts(name, description) ==
    /\ name.given
    /\ CategoryNameAccepts(name)
    /\ CategoryDescriptionAccepts(description)

CategoryUpdateSchemaAccepts(name, description) ==
    /\ name.given => CategoryNameAccepts(name)
    /\ CategoryDescriptionAccepts(description)

\* a lookup that never finds the name
CategoryByName_never_found(name) == 0

\* db.query(Category).filter(Category.name == name).first()
CategoryByName(name) ==
    LET found == {c \in DOMAIN categories : categories[c].name = name}
    IN  IF found = {} THEN 0 ELSE Min(found)

create_category(token, name, description) ==
    LET cu == get_current_admin_user(token)
        id == NextId(DOMAIN categories)
    IN  /\ Received([op |-> "create_category", token |-> token, name |-> name,
                   description |-> description])
        /\ IF cu.code # 200
           THEN resp' = Response(cu.code, cu.detail) /\ UNCHANGED db
           ELSE IF ~CategoryCreateSchemaAccepts(name, description)
           THEN resp' = Unprocessable /\ UNCHANGED db
           ELSE IF CategoryByName(name.stripped) # 0
           THEN resp' = Response(400, "Categoria com este nome ja existe") /\ UNCHANGED db
           ELSE /\ id <= MaxCategoryId
                /\ categories' = (id :> [name |-> name.stripped,
                                         description |-> IF description.given
                                                         THEN description.stripped ELSE None,
                                         is_active |-> TRUE]) @@ categories
                /\ resp' = ResponseBody(201, "created", <<id>>)
                /\ UNCHANGED <<users, products, carts, cart_items, cart_item_seq,
                               orders, files>>
        /\ UNCHANGED <<sessions, issued>>

update_category(token, category_id, name, description) ==
    LET cu       == get_current_admin_user(token)
        category == categories[category_id]
        renamed  == name.given /\ name.stripped # category.name
    IN  /\ Received([op |-> "update_category", token |-> token,
                   name |-> name, description |-> description,
                   category_id |-> category_id])
        /\ IF cu.code # 200
           THEN resp' = Response(cu.code, cu.detail) /\ UNCHANGED db
           ELSE IF ~CategoryUpdateSchemaAccepts(name, description)
           THEN resp' = Unprocessable /\ UNCHANGED db
           ELSE IF category_id \notin DOMAIN categories
           THEN resp' = Response(404, "Categoria nao encontrada") /\ UNCHANGED db
           ELSE IF renamed /\ CategoryByName(name.stripped) # 0
           THEN resp' = Response(400, "Categoria com este nome ja existe") /\ UNCHANGED db
           ELSE /\ categories' = [categories EXCEPT ![category_id] =
                      [name        |-> IF renamed THEN name.stripped ELSE category.name,
                       description |-> IF description.given
                                       THEN description.stripped ELSE category.description,
                       is_active   |-> category.is_active]]
                /\ resp' = ResponseBody(200, "ok", <<category_id>>)
                /\ UNCHANGED <<users, products, carts, cart_items, cart_item_seq,
                               orders, files>>
        /\ UNCHANGED <<sessions, issued>>

\* products.category_id REFERENCES categories(id): the DELETE is refused by
\* the database while a product names the category
\* the database without the constraint (SQLite without PRAGMA foreign_keys)
ReferencedByProduct_not_enforced(category_id) == FALSE

\* products.category_id REFERENCES categories(id), no ON DELETE action: the
\* DELETE is refused by the database while a product names the category
ReferencedByProduct(category_id) ==
    \E p \in DOMAIN products : products[p].category_id = category_id

delete_category(token, category_id) ==
    LET cu == get_current_admin_user(token)
    IN  /\ Received([op |-> "delete_category", token |-> token,
                   category_id |-> category_id])
        /\ IF cu.code # 200
           THEN resp' = Response(cu.code, cu.detail) /\ UNCHANGED db
           ELSE IF category_id \notin DOMAIN categories
           THEN resp' = Response(404, "Categoria nao encontrada") /\ UNCHANGED db
           ELSE IF ReferencedByProduct(category_id)
           THEN resp' = InternalServerError /\ UNCHANGED db
           ELSE /\ categories' = Remove(categories, category_id)
                /\ resp' = Response(204, "no content")
                /\ UNCHANGED <<users, products, carts, cart_items, cart_item_seq,
                               orders, files>>
        /\ UNCHANGED <<sessions, issued>>

(***************************************************************************)
(* Products: POST /products, POST /products/upload, DELETE /products/{id}  *)
(***************************************************************************)
\* no product is inserted once the largest product id reached this value
MaxProductId == 4

\* request schema ProductCreate (ProductBase)
ProductCreateSchemaAccepts(data) ==
    /\ Len(data.name) >= 3
    /\ Len(data.name) <= 200
    /\ data.price > 0
    /\ data.category_id > 0
    /\ data.stock >= 0

ProductCreate(name, price, category_id, stock) ==
    [name |-> name, price |-> price, category_id |-> category_id, stock |-> stock,
     image_url |-> NoImage]

create_product(token, data) ==
    LET cu == get_current_admin_user(token)
        id == NextId(DOMAIN products)
    IN  /\ Received([op |-> "create_product", token |-> token, data |-> data])
        /\ IF cu.code # 200
           THEN resp' = Response(cu.code, cu.detail) /\ UNCHANGED db
           ELSE IF ~ProductCreateSchemaAccepts(data)
           THEN resp' = Unprocessable /\ UNCHANGED db
           ELSE IF data.category_id \notin DOMAIN categories
           THEN resp' = Response(404, "Categoria nao encontrada") /\ UNCHANGED db
           ELSE IF ~categories[data.category_id].is_active
           THEN resp' = Response(400, "Nao e possivel adicionar produtos a uma categoria inativa")
                /\ UNCHANGED db
           ELSE IF \E p \in DOMAIN products :
                       /\ products[p].name = data.name
                       /\ products[p].category_id = data.category_id
           THEN resp' = Response(400, "Ja existe um produto com este nome nesta categoria")
                /\ UNCHANGED db
           ELSE /\ id <= MaxProductId
                /\ products' = (id :> [ProductRow(data.name, data.price, data.category_id,
                                                  data.stock, TRUE)
                                          EXCEPT !.image_url = data.image_url]) @@ products
                /\ resp' = ResponseBody(201, "created", <<id>>)
                /\ UNCHANGED <<users, categories, carts, cart_items, cart_item_seq,
                               orders, files>>
        /\ UNCHANGED <<sessions, issued>>

\* delete_image: unlinks the file when the path starts with uploads/ and exists
delete_image(disk, image_path) ==
    IF image_path.kind = "uploads/" /\ image_path.n \in DOMAIN disk
    THEN [disk EXCEPT ![image_path.n] = FALSE]
    ELSE disk

\* what save_and_optimize_image answers for an upload: 0 when it stores it
UploadKinds == {"photo.png", "notes.txt", "huge.jpg", "broken.webp"}
save_and_optimize_image(file) ==
    CASE file = "notes.txt"   -> Response(400, "Formato de arquivo nao permitido")
      [] file = "huge.jpg"    -> Response(413, "Arquivo muito grande")
      [] file = "broken.webp" -> Response(500, "Erro ao processar imagem")
      [] OTHER                -> Response(0, "saved")

upload_product_image(token, product_id, file) ==
    LET cu      == get_current_admin_user(token)
        product == products[product_id]
        cleaned == IF product.image_url.kind # "null"
                   THEN delete_image(files, product.image_url) ELSE files
        saved   == save_and_optimize_image(file)
        name    == NextId(DOMAIN files)
    IN  /\ Received([op |-> "upload_product_image", token |-> token,
                   product_id |-> product_id, file |-> file])
        /\ IF cu.code # 200
           THEN resp' = Response(cu.code, cu.detail) /\ UNCHANGED db
           ELSE IF product_id \notin DOMAIN products
           THEN resp' = Response(404, "Produto nao encontrado") /\ UNCHANGED db
           ELSE IF saved.code # 0
           THEN /\ resp' = saved
                /\ files' = cleaned
                /\ UNCHANGED <<users, categories, products, carts, cart_items,
                               cart_item_seq, orders>>
           ELSE /\ Cardinality(DOMAIN files) < MaxFiles
                /\ files' = (name :> TRUE) @@ cleaned
                /\ products' = [products EXCEPT ![product_id].image_url = Uploaded(name)]
                /\ resp' = ResponseBody(200, "Imagem enviada com sucesso", <<product_id>>)
                /\ UNCHANGED <<users, categories, carts, cart_items, cart_item_seq, orders>>
        /\ UNCHANGED <<sessions, issued>>

\* cart_items.product_id and order_items.product_id REFERENCE products(id):
\* the DELETE is refused by the database while a line names the product
delete_product(token, product_id) ==
    LET cu == get_current_admin_user(token)
    IN  /\ Received([op |-> "delete_product", token |-> token, product_id |-> product_id])
        /\ IF cu.code # 200
           THEN resp' = Response(cu.code, cu.detail) /\ UNCHANGED db
           ELSE IF product_id \notin DOMAIN products
           THEN resp' = Response(404, "Produto nao encontrado") /\ UNCHANGED db
           ELSE IF \/ \E ci \in cart_items : ci.product_id = product_id
                   \/ \E o \in OrderIds : QuantityOf(orders[o].items, product_id) > 0
           THEN resp' = InternalServerError /\ UNCHANGED db
           ELSE /\ products' = Remove(products, product_id)
                /\ resp' = Response(204, "no content")
                /\ UNCHANGED <<users, categories, carts, cart_items, cart_item_seq,
                               orders, files>>
        /\ UNCHANGED <<sessions, issued>>

(***************************************************************************)
(* GET /auth/me                                                            *)
(***************************************************************************)
get_current_user_info(token) ==
    LET cu == get_current_user(token)
    IN  /\ Received([op |-> "get_current_user_info", token |-> token])
        /\ resp' = IF cu.code # 200 THEN Response(cu.code, cu.detail)
                   ELSE ResponseBody(200, "ok", <<cu.uid>>)
        /\ UNCHANGED <<db, sessions, issued>>

(***************************************************************************)
(* Specification SpecAdmin: catalog administration, one request at a time, *)
(* by every kind of caller                                                 *)
(***************************************************************************)
InitAdmin ==
    /\ users = UsersInit
    /\ categories = CategoriesInit
    /\ products = ProductsInit
    /\ carts = {[id |-> 1, user_id |-> Alice]}
    /\ cart_items = {[id |-> 1, cart_id |-> 1, product_id |-> 2, quantity |-> 1,
                      price_at_time |-> 5]}
    /\ cart_item_seq = 1
    /\ orders = NoOrders
    /\ files = NoFiles
    /\ sessions = NoSessions
    /\ issued = {}
    /\ req = NoRequest
    /\ resp = Response(0, "none")
    /\ before = ProductsInit

\* the callers that probe every admin-only write: a user who is not an
\* administrator and a caller whose token does not decode
ProbeTokens == {AliceToken, GarbageToken}

CategoryNames ==
    { Plain("Bolsas"), Plain("Roupas"), Text(" Bolsas ", "Bolsas", FALSE),
      Plain("ab"), Text("<Bolsas>", "<Bolsas>", TRUE) }

CreateCategory ==
    \/ \E name \in CategoryNames : create_category(AdminToken, name, NoText)
    \/ create_category(AdminToken, Plain("Bolsas"), Plain("curta"))
    \/ \E token \in ProbeTokens : create_category(token, Plain("Bolsas"), NoText)

UpdateCategory ==
    \/ \E category_id \in {2, 9}, name \in {Plain("Tenis"), Plain("Roupas")} :
          update_category(AdminToken, category_id, name, NoText)
    \/ update_category(AdminToken, 2, NoText, Plain("descricao nova"))
    \/ update_category(AdminToken, 2, NoText, Plain("curta"))
    \/ \E token \in ProbeTokens : update_category(token, 2, Plain("Tenis"), NoText)

DeleteCategory ==
    \/ \E category_id \in {1, 3, 9} : delete_category(AdminToken, category_id)
    \/ \E token \in ProbeTokens : delete_category(token, 3)

CreateProduct ==
    \/ \E data \in { ProductCreate("Camisa", 20, 1, 3), ProductCreate("Camisa", 20, 9, 3),
                     ProductCreate("Camisa", 0, 1, 3), ProductCreate("Ca", 20, 1, 3) } :
          create_product(AdminToken, data)
    \/ \E token \in ProbeTokens : create_product(token, ProductCreate("Camisa", 20, 1, 3))

UpdateProduct ==
    \/ \E data \in { StockEdit(Given(0 - 1)),
                     ProductUpdate(Given("Bota"), Given(9), Given(2), Absent,
                                   Given(FALSE), Given(External(1))),
                     ProductUpdate(Given("Camisa"), Absent, Given(1), Absent, Absent, Absent),
                     ProductUpdate(Absent, Absent, Given(9), Absent, Absent, Absent) } :
          update_product(AdminToken, 3, data)
    \/ \E token \in ProbeTokens : update_product(token, 3, StockEdit(Given(0)))

UploadProductImage ==
    \/ \E file \in UploadKinds : upload_product_image(AdminToken, 3, file)
    \/ upload_product_image(AdminToken, 9, "photo.png")
    \/ \E token \in ProbeTokens : upload_product_image(token, 3, "photo.png")

DeleteProduct ==
    \/ \E product_id \in {2, 3, 9} : delete_product(AdminToken, product_id)
    \/ \E token \in AllTokens : delete_product(token, 3)

GetCurrentUserInfo ==
    \E token \in AllTokens : get_current_user_info(token)

NextAdmin ==
    \/ CreateCategory
    \/ UpdateCategory
    \/ DeleteCategory
    \/ CreateProduct
    \/ UpdateProduct
    \/ UploadProductImage
    \/ DeleteProduct
    \/ GetCurrentUserInfo

SpecAdmin == InitAdmin /\ [][NextAdmin]_vars

(***************************************************************************)
(* Properties of authorization (specification SpecAdmin)                   *)
(***************************************************************************)
AdminWrites ==
    {"create_category", "update_category", "delete_category",
     "create_product", "update_product", "upload_product_image", "delete_product"}

\* the token presented is that of an existing, active user
Authenticated(token) ==
    /\ token.valid
    /\ \E u \in DOMAIN users :
          /\ users[u].email = token.sub
          /\ users[u].is_active

\* the token presented does not decode, has no subject, or names nobody
NoValidToken(token) ==
    \/ ~token.valid
    \/ token.sub = None
    \/ \A u \in DOMAIN users : users[u].email # token.sub

C9_GetCurrentUser ==
    [][ req'.op = "get_current_user_info" =>
          LET token == req'.token
              named == {u \in DOMAIN users : token.valid /\ users[u].email = token.sub}
          IN  /\ resp'.code = 200 <=> (\E u \in named : users[u].is_active)
              /\ resp'.code = 200 => /\ resp'.body[1] \in named
                                     /\ users[resp'.body[1]].is_active
              /\ (~token.valid \/ token.sub = None \/ named = {}) => resp'.code = 401
              /\ (named # {} /\ \A u \in named : ~users[u].is_active) => resp'.code = 403
              /\ resp'.code \in {200, 401, 403}
      ]_vars

\* the inactive user Carol has just been refused with 403
C9_Witness ==
    /\ req.op = "get_current_user_info"
    /\ req.token = CarolToken
    /\ resp.code = 403
    /\ resp.detail = "Usuario inativo"

UniqueCategoryNames ==
    \A a, b \in DOMAIN categories :
        a # b => categories[a].name # categories[b].name

\* the name the request carries, as the schema hands it to the handler, is
\* the name of a category other than `self` (0 for a create)
NameTaken(request, self) ==
    /\ request.name.given
    /\ \E c \in DOMAIN categories \ {self} : categories[c].name = request.name.stripped

\* C16: no two categories have the same name; a create by an administrator
\* that passes its schema with the name of an existing category, and an
\* update of an existing category to the name of a different category, are
\* answered 400 and change nothing.
C16_UniqueCategoryNames ==
    [][ /\ UniqueCategoryNames'
        /\ ( /\ req'.op = "create_category"
             /\ get_current_admin_user(req'.token).code = 200
             /\ CategoryCreateSchemaAccepts(req'.name, req'.description)
             /\ NameTaken(req', 0) )
           => (resp'.code = 400 /\ UNCHANGED db)
        /\ ( /\ req'.op = "update_category"
             /\ get_current_admin_user(req'.token).code = 200
             /\ CategoryUpdateSchemaAccepts(req'.name, req'.description)
             /\ req'.category_id \in DOMAIN categories
             /\ NameTaken(req', req'.category_id) )
           => (resp'.code = 400 /\ UNCHANGED db)
      ]_vars

\* after a third category was created, renaming category 2 to the name of
\* category 1 is refused
C16_Witness ==
    /\ req.op = "update_category"
    /\ req.category_id = 2
    /\ req.name = Plain("Roupas")
    /\ resp.code = 400
    /\ 3 \in DOMAIN categories
    /\ categories[1].name = "Roupas"
    /\ categories[2].name # "Roupas"

\* C26: after product create and product update requests executed one at a
\* time, no two products of the same category have the same name.
C26_UniqueProductNamePerCategory ==
    \A a, b \in DOMAIN products :
        (a # b /\ products[a].category_id = products[b].category_id)
            => products[a].name # products[b].name

\* C27: whenever a product's image_url names a file stored by the upload
\* endpoint, that file is on storage; a POST /products/upload that is
\* refused (extension, size, undecodable image) leaves the product's stored
\* image file in place and its image_url unchanged.
C27_StoredImageExists ==
    [][ /\ \A p \in DOMAIN products' :
              products'[p].image_url.kind = "uploads/"
                  => /\ products'[p].image_url.n \in DOMAIN files'
                     /\ files'[products'[p].image_url.n]
        /\ (req'.op = "upload_product_image" /\ resp'.code \in {400, 413, 500})
              => (files' = files /\ products' = products)
      ]_vars

MaxConcOrders == 2

Sessions == {1, 2}
RacedProduct == 1

Idle ==
    [pc |-> "idle", op |-> "none", token |-> GarbageToken, quantity |-> 0,
     loaded |-> 0, committed |-> 0, flushed |-> <<>>]

\* the UPDATE sent as SET stock = stock - quantity
SessionStockWrite_relative(current, loaded, quantity) == current - quantity

\* the number written by the UPDATE that commit() flushes for the row
SessionStockWrite(current, loaded, quantity) == loaded - quantity

\* the handler up to the end of its validation loop: the product is loaded
\* and the sufficiency check is made on the stock just read
ConcValidate(s, op, token, quantity) ==
    LET cu      == get_current_user(token)
        items   == <<Line(RacedProduct, quantity, 4)>>
        product == products[RacedProduct]
    IN  /\ sessions[s].pc = "idle"
        /\ Cardinality(OrderIds)
             + Cardinality({t \in Sessions : sessions[t].pc \in {"validated", "flushed"}})
             < MaxConcOrders
        /\ Received([op |-> op, token |-> token, items |-> items, address |-> GoodAddress])
        /\ IF cu.code # 200
           THEN /\ resp' = Response(cu.code, cu.detail)
                /\ UNCHANGED sessions
           ELSE IF ~OrderCreateSchemaAccepts(items, GoodAddress, "pix")
           THEN /\ resp' = Unprocessable
                /\ UNCHANGED sessions
           ELSE IF op = "create_order" /\ ~product.is_active
           THEN /\ resp' = Response(400, "Produto nao esta disponivel para compra")
                /\ UNCHANGED sessions
           ELSE IF product.stock < quantity
           THEN /\ resp' = IF op = "create_order"
                           THEN Response(400, "Estoque insuficiente")
                           ELSE Response(400, "Alguns itens nao tem estoque suficiente")
                /\ UNCHANGED sessions
           ELSE /\ sessions' = [sessions EXCEPT ![s] =
                      [pc |-> "validated", op |-> op, token |-> token,
                       quantity |-> quantity, loaded |-> product.stock, committed |-> 0,
                       flushed |-> <<>>]]
                /\ UNCHANGED resp
        /\ UNCHANGED <<db, issued>>

\* db.add(order); db.flush(): the INSERT of the order row is sent inside the
\* session's open transaction; no other session sees it.  (The model numbers
\* the orders in the order of their commits.)
ConcFlush(s) ==
    LET me    == sessions[s]
        uid   == get_current_user(me.token).uid
        price == IF me.op = "create_order" THEN products[RacedProduct].price ELSE 4
        order == NewOrder(uid, price * me.quantity, GoodAddress, "pix",
                          <<Line(RacedProduct, me.quantity, price)>>)
    IN  /\ me.pc = "validated"
        /\ sessions' = [sessions EXCEPT ![s].pc = "flushed", ![s].flushed = <<order>>]
        /\ UNCHANGED <<db, issued, req, resp, before>>

\* a close() that commits what the transaction holds
SessionClose_commits(committed, in_transaction) == in_transaction

\* get_db's `finally: db.close()` on a session that was not committed: the
\* open transaction is rolled back and the tables are as last committed
SessionClose(committed, in_transaction) == committed

\* an exception between the flush and the commit (a statement refused by the
\* database, a row that is gone, a constructor refusing a keyword): the
\* handler is left, get_db closes the session, the caller gets 500
ConcFail(s) ==
    LET me == sessions[s]
    IN  /\ me.pc = "flushed"
        /\ orders' = SessionClose(orders, (NextId(OrderIds) :> me.flushed[1]) @@ orders)
        /\ sessions' = [sessions EXCEPT ![s].pc = "failed"]
        /\ resp' = InternalServerError
        /\ UNCHANGED <<users, categories, products, carts, cart_items, cart_item_seq,
                       files, issued, req, before>>

\* the rest of the handler: the lines are added, the stock is decremented on
\* the loaded object, the caller's cart is emptied by POST /orders, and
\* everything is committed
ConcCommit(s) ==
    LET me    == sessions[s]
        uid   == get_current_user(me.token).uid
        id    == NextId(OrderIds)
        order == me.flushed[1]
        cart  == CartOf(uid)
    IN  /\ me.pc = "flushed"
        /\ orders' = (id :> order) @@ orders
        /\ products' = [products EXCEPT ![RacedProduct].stock =
                            SessionStockWrite(@, me.loaded, me.quantity)]
        /\ cart_items' = IF me.op = "create_order" /\ cart # 0
                         THEN {ci \in cart_items : ci.cart_id # cart}
                         ELSE cart_items
        /\ sessions' = [sessions EXCEPT ![s].pc = "done", ![s].committed = id]
        /\ resp' = ResponseBody(201, "created", <<id>>)
        /\ UNCHANGED <<users, categories, carts, cart_item_seq, files, issued, req, before>>

InitConc ==
    /\ users = UsersInit
    /\ categories = CategoriesInit
    /\ products = ProductsInit
    /\ carts = {[id |-> 1, user_id |-> Alice]}
    /\ cart_items = {[id |-> 1, cart_id |-> 1, product_id |-> 2, quantity |-> 1,
                      price_at_time |-> 5]}
    /\ cart_item_seq = 1
    /\ orders = NoOrders
    /\ files = NoFiles
    /\ sessions = [s \in Sessions |-> Idle]
    /\ issued = {}
    /\ req = NoRequest
    /\ resp = Response(0, "none")
    /\ before = ProductsInit

ConcQuantities == {0, 2, 3, 4, 5, 6}

Validate ==
    \E s \in Sessions, op \in {"create_order", "checkout"}, quantity \in ConcQuantities :
        \/ ConcValidate(s, op, IF s = 1 THEN AliceToken ELSE BobToken, quantity)
        \/ quantity = 2 /\ ConcValidate(s, op, GarbageToken, quantity)

Flush ==
    \E s \in Sessions : ConcFlush(s)

Fail ==
    \E s \in Sessions : ConcFail(s)

Commit ==
    \E s \in Sessions : ConcCommit(s)

NextConc ==
    \/ Validate
    \/ Flush
    \/ Fail
    \/ Commit

SpecConc == InitConc /\ [][NextConc]_vars

(***************************************************************************)
(* Properties of concurrent checkouts (specification SpecConc)             *)
(***************************************************************************)
\* both requests were validated against the same stock and both committed,
\* and together they ask for more than that stock
BothSoldTheSameStock ==
    /\ \A s \in Sessions : sessions[s].pc = "done"
    /\ sessions[1].loaded = sessions[2].loaded
    /\ sessions[1].quantity + sessions[2].quantity > sessions[1].loaded

\* the session whose commit came last
LastCommitter == CHOOSE s \in Sessions : \A t \in Sessions :
                    sessions[t].committed <= sessions[s].committed

CatalogTotal(items) ==
    SumSeq([i \in DOMAIN items |-> products[items[i].product_id].price * items[i].quantity])

\* C11: the total_price of an order created by POST /orders is the sum over
\* its lines of the product's catalog price when the request arrived times
\* the ordered quantity, each line keeps that catalog price, and a unit price
\* sent by the caller plays no part.
C11_TotalFromCatalogPrices ==
    [][ (req'.op = "create_order" /\ resp'.code = 201) =>
          LET order == orders'[resp'.body[1]]
          IN  /\ order.total_price = CatalogTotal(req'.items)
              /\ Len(order.items) = Len(req'.items)
              /\ \A i \in DOMAIN req'.items :
                    /\ order.items[i].product_id = req'.items[i].product_id
                    /\ order.items[i].quantity = req'.items[i].quantity
                    /\ order.items[i].price = products[req'.items[i].product_id].price
      ]_vars

\* A x 2 at 10 and B x 3 at 5 were ordered with other unit prices sent along:
\* the total is 35
C11_Witness ==
    /\ req.op = "create_order"
    /\ resp.code = 201
    /\ req.items = <<Line(1, 2, 99), Line(2, 3, 1)>>
    /\ before[1].price = 10
    /\ before[2].price = 5
    /\ orders[resp.body[1]].total_price = 35

(***************************************************************************)
(* Failure of a checkout (specifications SpecConc and Spec)                *)
(***************************************************************************)
\* C12: a POST /orders or POST /stock/checkout request that is answered with
\* anything but 201 (a rejection by the handler or the schema, or an
\* exception after the order row was flushed and before the commit) adds no
\* order and no order line, changes no stock and removes no cart item.
C12_FailedCheckoutLeavesNoTrace ==
    [][ (req'.op \in {"create_order", "checkout"} /\ resp'.code # 201) =>
          /\ orders' = orders
          /\ products' = products
          /\ cart_items' = cart_items
      ]_vars

\* a request failed after its order row was flushed, and another failed its
\* stock check; the tables are as they were
C12_Witness ==
    /\ \E s \in Sessions :
          /\ sessions[s].pc = "failed"
          /\ Len(sessions[s].flushed) = 1
          /\ sessions[s].op = "create_order"
    /\ resp.code = 500
    /\ orders = NoOrders
    /\ products = ProductsInit
    /\ cart_items # {}

(***************************************************************************)
(* Specification SpecCartConc: two POST /cart/items requests in flight,    *)
(* each in its own session; a query sees what is committed when it runs    *)
(***************************************************************************)
IdleAdd ==
    [cart_id |-> 0, pc |-> "idle", token |-> GarbageToken, product_id |-> 0,
     item_id |-> 0, quantity |-> 0, loaded |-> 0, flushed |-> <<>>]

\* what the handler raises before it looks for the cart (code 0: nothing)
add_item_to_cart_rejection(token, product_id, quantity) ==
    LET cu == get_current_user(token)
    IN  IF cu.code # 200 THEN Response(cu.code, cu.detail)
        ELSE IF ~CartItemCreateSchemaAccepts(product_id, quantity) THEN Unprocessable
        ELSE IF product_id <= 0
        THEN Response(400, "ID do produto deve ser um numero positivo")
        ELSE IF quantity <= 0 THEN Response(400, "Quantidade deve ser maior que zero")
        ELSE IF ExceedsMaxQuantity(quantity)
        THEN Response(400, "Quantidade nao pode exceder 1000 unidades")
        ELSE IF product_id \notin DOMAIN products THEN Response(404, "Produto nao encontrado")
        ELSE IF ~products[product_id].is_active
        THEN Response(400, "Produto nao esta disponivel para compra")
        ELSE IF products[product_id].stock < quantity
        THEN Response(400, "Estoque insuficiente")
        ELSE Response(0, "ok")

\* the handler up to "Obter ou criar carrinho": the cart is looked up among
\* the committed rows; when there is none a Cart is added and flushed, which
\* takes an id from the sequence inside the still open transaction
AddLoadCart(s, token, product_id, quantity) ==
    LET cu        == get_current_user(token)
        rejection == add_item_to_cart_rejection(token, product_id, quantity)
        cart      == CartOf(cu.uid)
        taken     == {c.id : c \in carts} \cup
                     {sessions[t].flushed[1].id :
                          t \in {t \in Sessions : sessions[t].flushed # <<>>}}
        new_cart  == [id |-> NextId(taken), user_id |-> cu.uid]
    IN  /\ sessions[s].pc = "idle"
        /\ Received([op |-> "add_item_to_cart", token |-> token,
                     product_id |-> product_id, quantity |-> quantity])
        /\ IF rejection.code # 0
           THEN /\ resp' = rejection
                /\ UNCHANGED sessions
           ELSE /\ sessions' = [sessions EXCEPT ![s] =
                      [cart_id |-> IF cart = 0 THEN new_cart.id ELSE cart,
                       pc |-> "cart_loaded", token |-> token, product_id |-> product_id,
                       item_id |-> 0, quantity |-> quantity, loaded |-> 0,
                       flushed |-> IF cart = 0 THEN <<new_cart>> ELSE <<>>]]
                /\ UNCHANGED resp
        /\ UNCHANGED <<db, issued>>

\* the query for the line of (cart, product) and the checks on the merged
\* quantity; a rejection leaves the handler and the session is rolled back
AddFindItem(s) ==
    LET me       == sessions[s]
        product  == products[me.product_id]
        existing == ExistingCartItem(me.cart_id, me.product_id)
        line     == CartItemById(existing)
        new_quantity == line.quantity + me.quantity
    IN  /\ me.pc = "cart_loaded"
        /\ IF existing # 0 /\ ExceedsMaxQuantity(new_quantity)
           THEN /\ sessions' = [sessions EXCEPT ![s].pc = "failed"]
                /\ resp' = Response(400, "Quantidade total nao pode exceder 1000 unidades")
           ELSE IF existing # 0 /\ product.stock < new_quantity
           THEN /\ sessions' = [sessions EXCEPT ![s].pc = "failed"]
                /\ resp' = Response(400, "Estoque insuficiente")
           ELSE /\ sessions' = [sessions EXCEPT
                                  ![s].pc = "item_checked",
                                  ![s].item_id = existing,
                                  ![s].loaded = IF existing # 0 THEN line.quantity ELSE 0]
                /\ UNCHANGED resp
        /\ UNCHANGED <<db, issued, req, before>>

\* the rest of the handler: the quantity computed from the loaded line is
\* assigned, or a CartItem is added; db.commit() makes the session's rows
\* (the new cart, the new line) visible
AddCommit(s) ==
    LET me     == sessions[s]
        new_id == cart_item_seq + 1
    IN  /\ me.pc = "item_checked"
        /\ IF me.item_id # 0
           THEN /\ cart_items' = {IF ci.id = me.item_id
                                   THEN [ci EXCEPT !.quantity = me.loaded + me.quantity]
                                   ELSE ci : ci \in cart_items}
                /\ resp' = ResponseBody(201, "created", <<me.item_id>>)
                /\ UNCHANGED <<carts, cart_item_seq>>
           ELSE /\ cart_item_seq < MaxCartItemId
                /\ carts' = carts \cup Range(me.flushed)
                /\ cart_items' = cart_items \cup
                      {[id |-> new_id, cart_id |-> me.cart_id, product_id |-> me.product_id,
                        quantity |-> me.quantity,
                        price_at_time |-> products[me.product_id].price]}
                /\ cart_item_seq' = new_id
                /\ resp' = ResponseBody(201, "created", <<new_id>>)
        /\ sessions' = [sessions EXCEPT ![s].pc = "done"]
        /\ UNCHANGED <<users, categories, products, orders, files, issued, req, before>>

\* Bob has a cart with one line for product 1; Alice has no cart yet
InitCartConc ==
    /\ users = UsersInit
    /\ categories = CategoriesInit
    /\ products = CartProductsInit
    /\ carts = {[id |-> 1, user_id |-> Bob]}
    /\ cart_items = {[id |-> 1, cart_id |-> 1, product_id |-> 1, quantity |-> 2,
                      price_at_time |-> 10]}
    /\ cart_item_seq = 1
    /\ orders = NoOrders
    /\ files = NoFiles
    /\ sessions = [s \in Sessions |-> IdleAdd]
    /\ issued = {}
    /\ req = NoRequest
    /\ resp = Response(0, "none")
    /\ before = CartProductsInit

\* <<product_id, quantity>> sent by the two requests
ConcAddInputs == { <<2, 1>>, <<1, 3>>, <<1, 6>>, <<2, 999>>, <<3, 1>>, <<1, 0>> }

LoadsCart ==
    \E s \in Sessions, input \in ConcAddInputs :
        \/ \E token \in {AliceToken, BobToken} : AddLoadCart(s, token, input[1], input[2])
        \/ input[1] = 2 /\ AddLoadCart(s, GarbageToken, input[1], input[2])

FindsItem ==
    \E s \in Sessions : AddFindItem(s)

CommitsAdd ==
    \E s \in Sessions : AddCommit(s)

NextCartConc ==
    \/ LoadsCart
    \/ FindsItem
    \/ CommitsAdd

SpecCartConc == InitCartConc /\ [][NextCartConc]_vars

\* C28: however two concurrent POST /cart/items requests of one user
\* interleave, the user ends up with at most one cart and at most one cart
\* item per product.
C28_ConcurrentAddsKeepOneCartOneLine ==
    /\ \A uid \in DOMAIN users : Cardinality({c \in carts : c.user_id = uid}) <= 1
    /\ \A a, b \in cart_items :
          (a.cart_id = b.cart_id /\ a.product_id = b.product_id) => a = b

(***************************************************************************)
(* Accounts: POST /auth/register, PUT /auth/me                             *)
(***************************************************************************)
MaxUserId == 3

\* EmailStr: a syntactically valid address, returned with its domain in
\* lower case
EmailStrAccepts(raw) == raw \notin {"nomail"}
EmailStr(raw) == IF raw = "bob@X" THEN "bob@x" ELSE raw

\* Python truthiness of an optional string: None and "" are both false
Truthy(text) == text # None /\ text # ""

\* request schema UserCreate
UserCreateSchemaAccepts(email, username, password, full_name) ==
    /\ EmailStrAccepts(email)
    /\ Len(username) >= 3 /\ Len(username) <= 100
    /\ Len(password) >= 6
    /\ (full_name = None \/ Len(full_name) <= 255)

\* request schema UserUpdate: every field optional
UserUpdateSchemaAccepts(email, username, full_name, password) ==
    /\ (email = None \/ EmailStrAccepts(email))
    /\ (username = None \/ (Len(username) >= 3 /\ Len(username) <= 100))
    /\ (full_name = None \/ Len(full_name) <= 255)
    /\ (password = None \/ Len(password) >= 6)

\* a lookup that never finds the username
UserByUsername_never_found(username) == 0

\* db.query(User).filter(User.username == username).first()
UserByUsername(username) ==
    LET found == {u \in DOMAIN users : users[u].username = username}
    IN  IF found = {} THEN 0 ELSE Min(found)

\* request schema UserLogin
UserLoginSchemaAccepts(email, password) == EmailStrAccepts(email)

\* POST /auth/login: the token's subject is the email the user has now
login(raw_email, password) ==
    LET email == EmailStr(raw_email)
        uid   == UserByEmail(email)
        access_token == TokenFor(users[uid].email)
    IN  /\ Received([op |-> "login", email |-> raw_email, password |-> password])
        /\ IF ~UserLoginSchemaAccepts(raw_email, password)
           THEN resp' = Unprocessable /\ UNCHANGED issued
           ELSE IF uid = 0
           THEN resp' = Response(401, "Email ou senha incorretos") /\ UNCHANGED issued
           ELSE IF ~verify_password(password, users[uid].password)
           THEN resp' = Response(401, "Email ou senha incorretos") /\ UNCHANGED issued
           ELSE IF ~users[uid].is_active
           THEN resp' = Response(403, "Usuario inativo") /\ UNCHANGED issued
           ELSE /\ resp' = ResponseBody(200, "ok", <<access_token>>)
                /\ issued' = issued \cup {[uid |-> uid, token |-> access_token]}
        /\ UNCHANGED <<db, sessions>>

\* a registration that creates administrators
NewUserFlags_admin == [is_active |-> TRUE, is_admin |-> TRUE]

\* User(..., is_active=True, is_admin=False)
NewUserFlags == [is_active |-> TRUE, is_admin |-> FALSE]

register(raw_email, username, password, full_name) ==
    LET email  == EmailStr(raw_email)
        new_id == NextId(DOMAIN users)
    IN  /\ Received([op |-> "register", email |-> raw_email, username |-> username,
                   full_name |-> full_name, password |-> password])
        /\ IF ~UserCreateSchemaAccepts(raw_email, username, password, full_name)
           THEN resp' = Unprocessable /\ UNCHANGED db
           ELSE IF UserByEmail(email) # 0
           THEN resp' = Response(400, "Email ja cadastrado") /\ UNCHANGED db
           ELSE IF UserByUsername(username) # 0
           THEN resp' = Response(400, "Username ja cadastrado") /\ UNCHANGED db
           ELSE /\ new_id <= MaxUserId
                /\ users' = (new_id :> [email |-> email, username |-> username,
                                        full_name |-> full_name,
                                        password |-> hash_password(password),
                                        is_active |-> NewUserFlags.is_active,
                                        is_admin |-> NewUserFlags.is_admin]) @@ users
                /\ resp' = ResponseBody(201, "created", <<new_id>>)
                /\ UNCHANGED <<categories, products, carts, cart_items, cart_item_seq,
                               orders, files>>
        /\ UNCHANGED <<sessions, issued>>

update_current_user(token, raw_email, username, full_name, password) ==
    LET cu    == get_current_user(token)
        me    == users[cu.uid]
        email == IF raw_email = None THEN None ELSE EmailStr(raw_email)
        email_changes    == Truthy(email) /\ email # me.email
        username_changes == Truthy(username) /\ username # me.username
    IN  /\ Received([op |-> "update_current_user", token |-> token, email |-> raw_email,
                   username |-> username, full_name |-> full_name,
                   password |-> password])
        /\ IF cu.code # 200
           THEN resp' = Response(cu.code, cu.detail) /\ UNCHANGED db
           ELSE IF ~UserUpdateSchemaAccepts(raw_email, username, full_name, password)
           THEN resp' = Unprocessable /\ UNCHANGED db
           ELSE IF email_changes /\ UserByEmail(email) # 0
           THEN resp' = Response(400, "Email ja cadastrado") /\ UNCHANGED db
           ELSE IF username_changes /\ UserByUsername(username) # 0
           THEN \* current_user.email is already assigned on the session's object
                /\ resp' = Response(400, "Username ja cadastrado")
                /\ users' = SessionClose(users,
                                [users EXCEPT ![cu.uid].email =
                                    IF email_changes THEN email ELSE @])
                /\ UNCHANGED <<categories, products, carts, cart_items, cart_item_seq,
                               orders, files>>
           ELSE /\ users' = [users EXCEPT ![cu.uid] =
                      [email     |-> IF email_changes THEN email ELSE me.email,
                       username  |-> IF username_changes THEN username ELSE me.username,
                       full_name |-> IF Truthy(full_name) THEN full_name ELSE me.full_name,
                       password  |-> IF Truthy(password) THEN hash_password(password)
                                     ELSE me.password,
                       is_active |-> me.is_active,
                       is_admin  |-> me.is_admin]]
                /\ resp' = ResponseBody(200, "ok", <<cu.uid>>)
                /\ UNCHANGED <<categories, products, carts, cart_items, cart_item_seq,
                               orders, files>>
        /\ UNCHANGED <<sessions, issued>>

(***************************************************************************)
(* Specification SpecUsers: account requests, one at a time                *)
(***************************************************************************)
NewToken == TokenFor("new@x")

\* two registered users
InitUsers ==
    /\ users = [u \in {Alice, Bob} |-> UsersInit[u]]
    /\ categories = CategoriesInit
    /\ products = ProductsInit
    /\ carts = {}
    /\ cart_items = {}
    /\ cart_item_seq = 0
    /\ orders = NoOrders
    /\ files = NoFiles
    /\ sessions = NoSessions
    /\ issued = {}
    /\ req = NoRequest
    /\ resp = Response(0, "none")
    /\ before = ProductsInit

\* <<email, username, full_name, password>> sent to PUT /auth/me
UpdateInputs ==
    { <<"new@x", None, None, None>>,   <<"bob@x", None, None, None>>,
      <<"alice@x", None, None, None>>, <<"bob@X", None, None, None>>,
      <<None, "bob", None, None>>,     <<None, "new", None, None>>,
      <<None, "alice", None, None>>,   <<"new@x", "bob", None, None>>,
      <<None, None, "Al", "secret2">>, <<None, None, "", None>>,
      <<None, "ab", None, None>>,      <<"nomail", None, None, None>>,
      <<None, None, None, "short">> }

Register ==
    \/ \E raw_email \in {"alice@x", "new@x", "bob@X", "nomail"},
          username \in {"bob", "new", "ab"} :
          register(raw_email, username, "secret1", None)
    \/ register("new@x", "new", "short", "New N")

Login ==
    \/ \E password \in {"secret", "wrong"} : login("alice@x", password)
    \/ \E raw_email \in {"new@x", "nomail"} : login(raw_email, "secret")

UpdateCurrentUser ==
    \/ \E input \in UpdateInputs :
          update_current_user(AliceToken, input[1], input[2], input[3], input[4])
    \/ \E token \in {BobToken, NewToken, GarbageToken} :
          \/ update_current_user(token, "alice@x", None, None, None)
          \/ update_current_user(token, None, "alice", None, None)

NextUsers ==
    \/ Login
    \/ Register
    \/ UpdateCurrentUser

SpecUsers == InitUsers /\ [][NextUsers]_vars

(***************************************************************************)
(* Properties of accounts (specification SpecUsers)                        *)
(***************************************************************************)
UniqueUsers ==
    \A a, b \in DOMAIN users :
        a # b => /\ users[a].email # users[b].email
                 /\ users[a].username # users[b].username

\* the request passes its schema and its email or username belongs to a user
\* other than `self` (0 for a registration)
Collides(request, self) ==
    \/ /\ Truthy(request.email)
       /\ \E u \in DOMAIN users \ {self} : users[u].email = EmailStr(request.email)
    \/ /\ Truthy(request.username)
       /\ \E u \in DOMAIN users \ {self} : users[u].username = request.username

\* C15: no two users share an email and no two users share a username; a
\* register or update-profile request that passes its schema and whose email
\* or username belongs to another user is answered 400 and changes no user.
C15_UniqueEmailAndUsername ==
    [][ /\ UniqueUsers'
        /\ ( /\ req'.op = "register"
             /\ UserCreateSchemaAccepts(req'.email, req'.username, req'.password,
                                        req'.full_name)
             /\ Collides(req', 0) )
           => (resp'.code = 400 /\ users' = users)
        /\ ( /\ req'.op = "update_current_user"
             /\ Caller(req').code = 200
             /\ UserUpdateSchemaAccepts(req'.email, req'.username, req'.full_name,
                                        req'.password)
             /\ Collides(req', Caller(req').uid) )
           => (resp'.code = 400 /\ users' = users)
      ]_vars

\* Alice asks for a free email together with Bob's username: rejected, and
\* her email is not changed either
C15_Witness ==
    /\ req.op = "update_current_user"
    /\ req.token = AliceToken
    /\ req.email = "new@x"
    /\ req.username = "bob"
    /\ resp.code = 400
    /\ Caller(req).uid = Alice
    /\ users[Alice].email = "alice@x"
    /\ \A u \in DOMAIN users : users[u].email # "new@x"

\* C29: a PUT /auth/me answered 400 because the requested username is taken
\* leaves the caller's stored email, username, full name and password as
\* they were, also when the request carried a new email that collides with
\* nobody and was assigned before the rejection.
C29_RejectedUpdateChangesNothing ==
    [][ ( /\ req'.op = "update_current_user"
          /\ resp' = Response(400, "Username ja cadastrado") )
        => users' = users
      ]_vars

\* Alice asked for the free email new@x and for Bob's username: 400, and
\* her row still has alice@x, alice, her name and her password
C29_Witness ==
    /\ req.op = "update_current_user"
    /\ req.token = AliceToken
    /\ req.email = "new@x"
    /\ req.username = "bob"
    /\ UserByEmail("new@x") = 0
    /\ resp = Response(400, "Username ja cadastrado")
    /\ users[Alice] = UsersInit[Alice]

C22_TokenAuthenticatesItsUserOnly ==
    \A i \in issued :
        get_current_user(i.token).code = 200 => get_current_user(i.token).uid = i.uid

(***************************************************************************)
(* Session per request: get_db and the routes that depend on it            *)
(***************************************************************************)
MaxRequests == 2

Requests == 1 .. MaxRequests

\* number of Depends(get_db) in the dependency tree of a route: GET /health
\* has none, POST /auth/register has its own, POST /orders has its own and
\* the one of get_current_user
DbDependencies(route) ==
    CASE route = "health_check" -> 0
      [] route = "register"     -> 1
      [] route = "create_order" -> 2

\* Depends(get_db) with the default use_cache: the provider is called once
\* per request, every further Depends(get_db) receives the same session
SessionsOpened(route) == IF DbDependencies(route) > 0 THEN 1 ELSE 0

\* a provider whose close is skipped when the handler raised
SessionsClosed_only_on_return(opened, outcome) ==
    IF outcome = "returned" THEN opened ELSE 0

\* try: yield db / finally: db.close()
SessionsClosed(opened, outcome) == opened

NotArrived == [pc |-> "waiting", route |-> "none", outcome |-> "none",
               opened |-> 0, closed |-> 0]

Arrive(r, route) ==
    /\ sessions[r].pc = "waiting"
    /\ sessions' = [sessions EXCEPT ![r] = [@ EXCEPT !.pc = "resolving", !.route = route]]
    /\ UNCHANGED <<db, issued, req, resp, before>>

\* db = SessionLocal(), up to the yield
ResolveDependencies(r) ==
    /\ sessions[r].pc = "resolving"
    /\ sessions' = [sessions EXCEPT ![r] =
                       [@ EXCEPT !.pc = "handling",
                                 !.opened = SessionsOpened(sessions[r].route)]]
    /\ UNCHANGED <<db, issued, req, resp, before>>

\* the dependencies and the handler run to a return or to a raise
\* (HTTPException or any other error); GET /health has nothing that raises
Handle(r, outcome) ==
    /\ sessions[r].pc = "handling"
    /\ sessions[r].route = "health_check" => outcome = "returned"
    /\ sessions' = [sessions EXCEPT ![r] = [@ EXCEPT !.pc = "exiting", !.outcome = outcome]]
    /\ UNCHANGED <<db, issued, req, resp, before>>

\* the generator is resumed after the yield: finally: db.close()
ExitDependencies(r) ==
    /\ sessions[r].pc = "exiting"
    /\ sessions' = [sessions EXCEPT ![r] =
                       [@ EXCEPT !.pc = "done",
                                 !.closed = SessionsClosed(sessions[r].opened,
                                                           sessions[r].outcome)]]
    /\ UNCHANGED <<db, issued, req, resp, before>>

InitSession ==
    /\ users = UsersInit
    /\ categories = CategoriesInit
    /\ products = ProductsInit
    /\ carts = {}
    /\ cart_items = {}
    /\ cart_item_seq = 0
    /\ orders = NoOrders
    /\ files = NoFiles
    /\ sessions = [r \in Requests |-> NotArrived]
    /\ issued = {}
    /\ req = NoRequest
    /\ resp = Response(0, "none")
    /\ before = ProductsInit

Routes == {"health_check", "register", "create_order"}

Arrives == \E r \in Requests, route \in Routes : Arrive(r, route)

Resolves == \E r \in Requests : ResolveDependencies(r)

Handles == \E r \in Requests, outcome \in {"returned", "raised"} : Handle(r, outcome)

Exits == \E r \in Requests : ExitDependencies(r)

NextSession ==
    \/ Arrives
    \/ Resolves
    \/ Handles
    \/ Exits

SpecSession == InitSession /\ [][NextSession]_vars

\* the server keeps running every request it accepted: dependencies are
\* resolved, the handler ends (no handler loops without bound) and the exit
\* stack resumes the generator
SpecSessionLive ==
    /\ SpecSession
    /\ \A r \in Requests :
          /\ WF_vars(ResolveDependencies(r))
          /\ WF_vars(\E outcome \in {"returned", "raised"} : Handle(r, outcome))
          /\ WF_vars(ExitDependencies(r))

(***************************************************************************)
(* Properties of the session per request (specification SpecSessionLive)   *)
(***************************************************************************)
Resolved(r) == sessions[r].pc \in {"handling", "exiting", "done"}

HoldsOpenSession(r) == sessions[r].opened > sessions[r].closed

====
